---- MODULE Spec2Model ----
(***************************************************************************)
(* A model of the Pulse netcode core (include/net_common.hpp,              *)
(* include/net_host.hpp, include/net_client.hpp): the packet codec, the    *)
(* client's input history and interpolation buffer, the shared movement    *)
(* rule, and the host/client packet handlers over a lossy datagram network.*)
(*                                                                         *)
(* Representation.                                                         *)
(*   uint8_t   a number in 0..255                                          *)
(*   uint16_t  a number in 0..65535                                        *)
(*   uint32_t  a pair <<hi, lo>> of 16-bit halves (hi = v >> 16,           *)
(*             lo = v & 0xFFFF); TLC's integers are 32-bit signed, so a    *)
(*             uint32_t with its top bit set is not a TLC integer          *)
(*   float     the 32-bit word that memcpy copies (a uint32_t); the word   *)
(*             is read as a two's-complement fixed-point number of         *)
(*             1/FScale units, saturating at +-FMax, where arithmetic is   *)
(*             done on it                                                  *)
(***************************************************************************)
EXTENDS Integers, Sequences, FiniteSets, TLC

VARIABLES
    host,       \* the Host object (net_host.hpp:133-142)
    client,     \* the Client objects, by endpoint (net_client.hpp:220-240)
    net,        \* datagrams in flight, by destination endpoint
    obs,        \* what the last step did (observation of the handlers)
    cx,         \* codec scenario: a value, the buffer it was written to, the value read back
    hx,         \* InputHistory scenario
    ix,         \* InterpolationState scenario
    mx          \* movement-rule scenario

vars == <<host, client, net, obs, cx, hx, ix, mx>>

Idle == [op |-> "idle"]

(***************************************************************************)
(* Constants & configuration (net_common.hpp:48-59)                        *)
(***************************************************************************)
MAX_PACKET_SIZE == 1400
INPUT_BUFFER_SIZE == 64
STATE_BUFFER_SIZE == 128

(***************************************************************************)
(* Packet types (net_common.hpp:65-86)                                     *)
(***************************************************************************)
CONNECT_REQUEST == 1
CONNECT_ACCEPT == 2
CONNECT_REJECT == 3
DISCONNECT == 4
HEARTBEAT == 5
INPUT == 16
STATE_UPDATE == 17
WORLD_SNAPSHOT == 18
ENTITY_CREATE == 32
ENTITY_DESTROY == 33
EVENT_BROADCAST == 34
ACK == 48
RELIABLE_DATA == 49

(***************************************************************************)
(* uint32_t as <<hi, lo>>                                                  *)
(***************************************************************************)
U32(n) == <<n \div 65536, n % 65536>>

U32Gt(a, b) == a[1] > b[1] \/ (a[1] = b[1] /\ a[2] > b[2])

U32Le(a, b) == ~U32Gt(a, b)

U32Lt(a, b) == U32Gt(b, a)

\* ++v on a uint32_t (wraps at 2^32)
U32Inc(a) == IF a[2] < 65535 THEN <<a[1], a[2] + 1>> ELSE <<(a[1] + 1) % 65536, 0>>

\* a - b on uint32_t (wraps at 2^32)
U32Sub(a, b) ==
    IF a[2] >= b[2]
    THEN <<(a[1] - b[1] + 65536) % 65536, a[2] - b[2]>>
    ELSE <<(a[1] - b[1] - 1 + 65536) % 65536, a[2] - b[2] + 65536>>

(***************************************************************************)
(* PacketBuffer (net_common.hpp:158-281).  data[i] of the code is          *)
(* data[i+1] here; a byte of the array that was never written is Uninit.   *)
(* Every multi-byte write of the code is a run of writeU8 calls and every  *)
(* multi-byte read a run of readU8 calls; writeU8s and readU8s do a whole  *)
(* run at once, byte for byte what the calls in turn do.                   *)
(***************************************************************************)
Uninit == 0 - 1

EmptyBuffer == [data |-> <<>>, writePos |-> 0, readPos |-> 0]

\* buffer.writePos += n  (the bytes skipped keep whatever the array held)
Reserve(b, n) ==
    [b EXCEPT !.data = IF Len(@) >= b.writePos + n THEN @
                       ELSE @ \o [i \in 1..(b.writePos + n - Len(@)) |-> Uninit],
              !.writePos = @ + n]

\* buffer.writePos = pos
SeekWrite(b, pos) == [b EXCEPT !.writePos = pos]

\* the datagram sendto() puts on the wire: data[0 .. writePos)
Datagram(b) == SubSeq(b.data, 1, b.writePos)

\* recvfrom() into buffer.data, then writePos = received, readPos = 0
Received(d) == [data |-> d, writePos |-> Len(d), readPos |-> 0]

\* data[pos .. pos + Len(src)) = src
PutAll(data, pos, src) ==
    SubSeq(data, 1, pos) \o src \o SubSeq(data, pos + Len(src) + 1, Len(data))

\* writeU8(v) for each v of bytes in turn: a byte is stored while
\* writePos < MAX_PACKET_SIZE and dropped once the buffer is full
writeU8s(b, bytes) ==
    LET room == MAX_PACKET_SIZE - b.writePos
        n == IF Len(bytes) <= room THEN Len(bytes) ELSE IF room > 0 THEN room ELSE 0
    IN  [b EXCEPT !.data = PutAll(@, b.writePos, SubSeq(bytes, 1, n)), !.writePos = @ + n]

writeU8(b, v) == writeU8s(b, <<v>>)

\* writeU8(v & 0xFF); writeU8((v >> 8) & 0xFF)
U16Bytes(v) == <<v % 256, (v \div 256) % 256>>

writeU16(b, v) == writeU8s(b, U16Bytes(v))

\* writeU16(v & 0xFFFF); writeU16((v >> 16) & 0xFFFF)
U32Bytes(v) == U16Bytes(v[2]) \o U16Bytes(v[1])

writeU32(b, v) == writeU8s(b, U32Bytes(v))

\* memcpy(&u, &v, 4); writeU32(u): the float's word is written as it is
FloatBytes(f) == U32Bytes(f)

writeFloat(b, f) == writeU8s(b, FloatBytes(f))

Vec3Bytes(v) == FloatBytes(v.x) \o FloatBytes(v.y) \o FloatBytes(v.z)

writeVec3(b, v) == writeU8s(b, Vec3Bytes(v))

\* all of src or nothing
writeBytes(b, src) ==
    IF b.writePos + Len(src) <= MAX_PACKET_SIZE
    THEN [b EXCEPT !.data = PutAll(@, b.writePos, src), !.writePos = @ + Len(src)]
    ELSE b

\* Each read returns <<value, buffer after the read>>.
\* readU8() n times: a byte of the datagram while readPos < writePos, 0 after
readU8s(b, n) ==
    <<[i \in 1..n |-> IF b.readPos + i <= b.writePos THEN b.data[b.readPos + i] ELSE 0],
      [b EXCEPT !.readPos = IF @ + n <= b.writePos THEN @ + n
                            ELSE IF @ < b.writePos THEN b.writePos ELSE @]>>

readU8(b) == LET r == readU8s(b, 1) IN <<r[1][1], r[2]>>

\* mutant of U16Of: the first byte taken as the high byte
U16OfBigEndian(bytes, i) == bytes[i] * 256 + bytes[i + 1]

\* v = readU8(); v | (readU8() << 8), on the bytes read: the operands share no bit
U16Of(bytes, i) == bytes[i] + bytes[i + 1] * 256

\* v = readU16(); v | (readU16() << 16)
\* (the shift of a promoted uint16_t >= 0x8000 is defined since C++14,
\*  and the code needs C++17: the result is the wrapped word)
U32Of(bytes, i) == <<U16Of(bytes, i + 2), U16Of(bytes, i)>>

FloatOf(bytes, i) == U32Of(bytes, i)

Vec3Of(bytes, i) ==
    [x |-> FloatOf(bytes, i), y |-> FloatOf(bytes, i + 4), z |-> FloatOf(bytes, i + 8)]

readU16(b) == LET r == readU8s(b, 2) IN <<U16Of(r[1], 1), r[2]>>

readU32(b) == LET r == readU8s(b, 4) IN <<U32Of(r[1], 1), r[2]>>

readFloat(b) == LET r == readU8s(b, 4) IN <<FloatOf(r[1], 1), r[2]>>

readVec3(b) == LET r == readU8s(b, 12) IN <<Vec3Of(r[1], 1), r[2]>>

\* readBytes(dst, len): dst is left as it was when fewer than len bytes remain
readBytes(b, dst, len) ==
    IF b.readPos + len <= b.writePos
    THEN <<SubSeq(b.data, b.readPos + 1, b.readPos + len), [b EXCEPT !.readPos = @ + len]>>
    ELSE <<dst, b>>

(***************************************************************************)
(* PacketHeader (net_common.hpp:134-152)                                   *)
(***************************************************************************)
Magic == <<80, 85, 76, 83>>     \* 'P','U','L','S'

\* PacketHeader(): type HEARTBEAT, every number 0, magic "PULS"
NewHeader ==
    [magic |-> Magic, type |-> HEARTBEAT, sequence |-> U32(0), ack |-> U32(0),
     ackBits |-> U32(0), tick |-> U32(0), payloadSize |-> 0]

\* mutant of isValid: any magic is accepted
isValidAny(h) == Len(h.magic) = 4

isValid(h) ==
    h.magic[1] = 80 /\ h.magic[2] = 85 /\ h.magic[3] = 76 /\ h.magic[4] = 83

\* writeBytes(magic, 4); writeU8(type); writeU32 of sequence, ack, ackBits, tick;
\* writeU16(payloadSize)
writeHeader(b, h) ==
    writeU8s(writeBytes(b, h.magic),
             <<h.type>> \o U32Bytes(h.sequence) \o U32Bytes(h.ack) \o U32Bytes(h.ackBits)
                        \o U32Bytes(h.tick) \o U16Bytes(h.payloadSize))

\* the header fields after the magic, from the 19 bytes read for them
HeaderFrom(magic, r) ==
    <<[magic |-> magic, type |-> r[1][1], sequence |-> U32Of(r[1], 2),
       ack |-> U32Of(r[1], 6), ackBits |-> U32Of(r[1], 10), tick |-> U32Of(r[1], 14),
       payloadSize |-> U16Of(r[1], 18)], r[2]>>

\* rm: what readBytes(header.magic, 4) gave
HeaderAfterMagic(rm) == HeaderFrom(rm[1], readU8s(rm[2], 19))

readHeader(b) == HeaderAfterMagic(readBytes(b, NewHeader.magic, 4))

(***************************************************************************)
(* Payload serialization (net_common.hpp:221-280)                          *)
(***************************************************************************)
\* sequence, tick, keys, yaw, pitch, deltaTime: 21 bytes
writePlayerInput(b, input) ==
    writeU8s(b, U32Bytes(input.sequence) \o U32Bytes(input.tick) \o <<input.keys>>
                \o FloatBytes(input.yaw) \o FloatBytes(input.pitch)
                \o FloatBytes(input.deltaTime))

readPlayerInput(b) ==
    LET r == readU8s(b, 21)
    IN  <<[sequence |-> U32Of(r[1], 1), tick |-> U32Of(r[1], 5), keys |-> r[1][9],
           yaw |-> FloatOf(r[1], 10), pitch |-> FloatOf(r[1], 14),
           deltaTime |-> FloatOf(r[1], 18)], r[2]>>

\* playerId, tick, position, yaw, pitch, lastProcessedInput: 32 bytes
writePlayerState(b, state) ==
    writeU8s(b, U32Bytes(state.playerId) \o U32Bytes(state.tick) \o Vec3Bytes(state.position)
                \o FloatBytes(state.yaw) \o FloatBytes(state.pitch)
                \o U32Bytes(state.lastProcessedInput))

readPlayerState(b) ==
    LET r == readU8s(b, 32)
    IN  <<[playerId |-> U32Of(r[1], 1), tick |-> U32Of(r[1], 5), position |-> Vec3Of(r[1], 9),
           yaw |-> FloatOf(r[1], 21), pitch |-> FloatOf(r[1], 25),
           lastProcessedInput |-> U32Of(r[1], 29)], r[2]>>

\* entityId, entityType, position, velocity, yaw, pitch: 37 bytes
writeEntityState(b, e) ==
    writeU8s(b, U32Bytes(e.entityId) \o <<e.entityType>> \o Vec3Bytes(e.position)
                \o Vec3Bytes(e.velocity) \o FloatBytes(e.yaw) \o FloatBytes(e.pitch))

readEntityState(b) ==
    LET r == readU8s(b, 37)
    IN  <<[entityId |-> U32Of(r[1], 1), entityType |-> r[1][5], position |-> Vec3Of(r[1], 6),
           velocity |-> Vec3Of(r[1], 18), yaw |-> FloatOf(r[1], 30),
           pitch |-> FloatOf(r[1], 34)], r[2]>>

(***************************************************************************)
(* float: the word is a two's-complement count of 1/FScale units; results  *)
(* beyond +-FMax saturate (FMax * FMax is still a TLC integer).            *)
(***************************************************************************)
FScale == 10 * 10

FMax == 46340 + 0

\* the word of the number v / FScale, for -FMax <= v <= FMax
F(v) ==
    IF v >= 0 THEN <<0, v>>
    ELSE <<65535, 65536 + v>>

\* the number (in 1/FScale units) a word stands for
FVal(w) ==
    IF w[1] < 32768
    THEN (IF w[1] = 0 /\ w[2] <= FMax THEN w[2] ELSE FMax)
    ELSE (IF w[1] = 65535 /\ 65536 - w[2] <= FMax THEN w[2] - 65536 ELSE 0 - FMax)

FSat(v) == IF v > FMax THEN FMax ELSE IF v < 0 - FMax THEN 0 - FMax ELSE v

FAdd(a, b) == F(FSat(FVal(a) + FVal(b)))

FSub(a, b) == F(FSat(FVal(a) - FVal(b)))

\* rounded to the nearest unit
FMul(a, b) == F(FSat((FVal(a) * FVal(b) + (FScale \div 2)) \div FScale))

\* a / b, rounded to the nearest unit.  x / 0 is +-inf and 0 / 0 is NaN in the
\* code; the quotient's only use clamps it with std::min(1.0f, t), which turns a
\* NaN into 1.0f as it does +inf, so both are the saturated FMax here.
FDiv(a, b) ==
    LET n == IF FVal(b) < 0 THEN 0 - FVal(a) ELSE FVal(a)
        d == IF FVal(b) < 0 THEN 0 - FVal(b) ELSE FVal(b)
    IN  IF d = 0 THEN (IF n < 0 THEN F(0 - FMax) ELSE F(FMax))
        ELSE F(FSat((2 * n * FScale + d) \div (2 * d)))

\* (float)v for a uint32_t v
FFromU32(v) ==
    IF v[1] = 0 /\ v[2] * FScale <= FMax THEN F(v[2] * FScale) ELSE F(FMax)

\* std::min(a, b) and std::max(a, b) on floats
FMinOf(a, b) == IF FVal(b) < FVal(a) THEN b ELSE a

FMaxOf(a, b) == IF FVal(a) < FVal(b) THEN b ELSE a

(***************************************************************************)
(* Vec3 (net_common.hpp:92-104)                                            *)
(***************************************************************************)
Vec3(x, y, z) == [x |-> x, y |-> y, z |-> z]

Vec3Add(a, b) == Vec3(FAdd(a.x, b.x), FAdd(a.y, b.y), FAdd(a.z, b.z))

Vec3Sub(a, b) == Vec3(FSub(a.x, b.x), FSub(a.y, b.y), FSub(a.z, b.z))

Vec3Scale(a, t) == Vec3(FMul(a.x, t), FMul(a.y, t), FMul(a.z, t))

lerp(a, b, t) == Vec3Add(a, Vec3Scale(Vec3Sub(b, a), t))

(***************************************************************************)
(* InterpolationState (net_common.hpp:323-369).  states[i] of the code is  *)
(* states[i+1] here.                                                       *)
(***************************************************************************)
NewInterpolationState ==
    [states |-> [i \in 1..STATE_BUFFER_SIZE |-> Uninit], count |-> 0]

addState(s, state) ==
    [states |-> [s.states EXCEPT ![(s.count % STATE_BUFFER_SIZE) + 1] = state],
     count |-> s.count + 1]

\* states[(count - 1 - i) % STATE_BUFFER_SIZE]
InterpAt(s, i) == s.states[((s.count - 1 - i) % STATE_BUFFER_SIZE) + 1]

\* mutant of InterpHits: the scan stops at a state with tick >= targetTick
InterpHitsNotBefore(s, targetTick) ==
    {i \in 0..((IF s.count < STATE_BUFFER_SIZE THEN s.count ELSE STATE_BUFFER_SIZE) - 1) :
        U32Le(targetTick, InterpAt(s, i).tick)}

\* the scan's hits: every i whose state has tick <= targetTick
InterpHits(s, targetTick) ==
    {i \in 0..((IF s.count < STATE_BUFFER_SIZE THEN s.count ELSE STATE_BUFFER_SIZE) - 1) :
        U32Le(InterpAt(s, i).tick, targetTick)}

\* the factor t, clamped to [0, 1]
InterpFactor(before, after, targetTick) ==
    LET t == FDiv(FFromU32(U32Sub(targetTick, before.tick)),
                  FFromU32(U32Sub(after.tick, before.tick)))
    IN  FMaxOf(F(0), FMinOf(F(FScale), t))

\* mutant of InterpBlend: lerp's end points swapped
InterpBlendReversed(before, after, t, targetTick) ==
    [playerId |-> before.playerId,
     tick |-> targetTick,
     position |-> lerp(after.position, before.position, t),
     yaw |-> FAdd(before.yaw, FMul(FSub(after.yaw, before.yaw), t)),
     pitch |-> FAdd(before.pitch, FMul(FSub(after.pitch, before.pitch), t)),
     lastProcessedInput |-> after.lastProcessedInput]

\* `out` when both before and after were found
InterpBlend(before, after, t, targetTick) ==
    [playerId |-> before.playerId,
     tick |-> targetTick,
     position |-> lerp(before.position, after.position, t),
     yaw |-> FAdd(before.yaw, FMul(FSub(after.yaw, before.yaw), t)),
     pitch |-> FAdd(before.pitch, FMul(FSub(after.pitch, before.pitch), t)),
     lastProcessedInput |-> after.lastProcessedInput]

\* bool interpolate(targetTick, out): [ok, out]; out is "untouched" on failure
interpolate(s, targetTick) ==
    IF s.count < 2 THEN [ok |-> FALSE, out |-> "untouched"]
    ELSE LET hits == InterpHits(s, targetTick)
         IN  IF hits = {} THEN [ok |-> FALSE, out |-> "untouched"]
             ELSE LET i == CHOOSE j \in hits : \A m \in hits : j <= m
                      before == InterpAt(s, i)
                  IN  IF i = 0 THEN [ok |-> TRUE, out |-> before]
                      ELSE LET after == InterpAt(s, i - 1)
                               t == InterpFactor(before, after, targetTick)
                           IN  [ok |-> TRUE,
                                out |-> InterpBlend(before, after, t, targetTick)]

(***************************************************************************)
(* The movement rule (net_host.hpp:306-342, net_client.hpp:438-463).       *)
(* cosf and sinf are tabulated at the multiples of pi/4, the angle rounded *)
(* to the nearest of them.                                                 *)
(***************************************************************************)
\* input.yaw * M_PI / 180.0f, in 1/FScale radians
YawRad(yaw) == F((FVal(yaw) * 314 + 9000) \div 18000)

\* the multiple of pi/4 (0..7) nearest to the angle
Octant(rad) == (((FVal(rad) * 100 + 3927) \div 7854) % 8) + 1

cosf(rad) == F((<<100, 71, 0, 0 - 71, 0 - 100, 0 - 71, 0, 71>>)[Octant(rad)])

sinf(rad) == F((<<0, 71, 100, 71, 0, 0 - 71, 0 - 100, 0 - 71>>)[Octant(rad)])

\* input.keys & mask, as a truth value
KeyDown(keys, mask) == (keys \div mask) % 2 = 1

\* v += d (plus) or v -= d
Accumulate(v, plus, d) == IF plus THEN FAdd(v, d) ELSE FSub(v, d)

\* if (down) { position.x (+= or -=) dx; position.z (+= or -=) dz; }
MoveXZ(position, down, xplus, dx, zplus, dz) ==
    IF down
    THEN [position EXCEPT !.x = Accumulate(@, xplus, dx), !.z = Accumulate(@, zplus, dz)]
    ELSE position

\* if (down) position.y (+= or -=) dy;
MoveY(position, down, plus, dy) ==
    IF down THEN [position EXCEPT !.y = Accumulate(@, plus, dy)] ELSE position

\* Host::applyInput on the PlayerState found, with velocity, cosf(yawRad) and
\* sinf(yawRad) computed
HostMoveBy(state, input, currentTick, velocity, c, s) ==
    [state EXCEPT
       !.position =
          MoveY(MoveY(MoveXZ(MoveXZ(MoveXZ(MoveXZ(@,
            KeyDown(input.keys, 1), TRUE, FMul(c, velocity), TRUE, FMul(s, velocity)),
            KeyDown(input.keys, 2), FALSE, FMul(c, velocity), FALSE, FMul(s, velocity)),
            KeyDown(input.keys, 4), TRUE, FMul(s, velocity), FALSE, FMul(c, velocity)),
            KeyDown(input.keys, 8), FALSE, FMul(s, velocity), TRUE, FMul(c, velocity)),
            KeyDown(input.keys, 16), TRUE, velocity),
            KeyDown(input.keys, 32), FALSE, velocity),
       !.yaw = input.yaw,
       !.pitch = input.pitch,
       !.tick = currentTick]

HostMove(state, input, currentTick) ==
    HostMoveBy(state, input, currentTick, FMul(F(5 * FScale), input.deltaTime),
               cosf(YawRad(input.yaw)), sinf(YawRad(input.yaw)))

\* void Host::applyInput(playerId, input), on the players_ map
applyInput(players, playerId, input, currentTick) ==
    IF playerId \notin DOMAIN players THEN players
    ELSE [players EXCEPT ![playerId] = HostMove(@, input, currentTick)]

\* mutant of ClientMoveBy: D strafes the way A does
ClientMoveByStrafe(state, input, velocity, c, s) ==
    [state EXCEPT
       !.position =
          MoveY(MoveY(MoveXZ(MoveXZ(MoveXZ(MoveXZ(@,
            KeyDown(input.keys, 1), TRUE, FMul(c, velocity), TRUE, FMul(s, velocity)),
            KeyDown(input.keys, 2), FALSE, FMul(c, velocity), FALSE, FMul(s, velocity)),
            KeyDown(input.keys, 4), TRUE, FMul(s, velocity), FALSE, FMul(c, velocity)),
            KeyDown(input.keys, 8), TRUE, FMul(s, velocity), FALSE, FMul(c, velocity)),
            KeyDown(input.keys, 16), TRUE, velocity),
            KeyDown(input.keys, 32), FALSE, velocity),
       !.yaw = input.yaw,
       !.pitch = input.pitch]

\* Client::applyInputToState, with velocity, cosf(yawRad) and sinf(yawRad) computed
ClientMoveBy(state, input, velocity, c, s) ==
    [state EXCEPT
       !.position =
          MoveY(MoveY(MoveXZ(MoveXZ(MoveXZ(MoveXZ(@,
            KeyDown(input.keys, 1), TRUE, FMul(c, velocity), TRUE, FMul(s, velocity)),
            KeyDown(input.keys, 2), FALSE, FMul(c, velocity), FALSE, FMul(s, velocity)),
            KeyDown(input.keys, 4), TRUE, FMul(s, velocity), FALSE, FMul(c, velocity)),
            KeyDown(input.keys, 8), FALSE, FMul(s, velocity), TRUE, FMul(c, velocity)),
            KeyDown(input.keys, 16), TRUE, velocity),
            KeyDown(input.keys, 32), FALSE, velocity),
       !.yaw = input.yaw,
       !.pitch = input.pitch]

\* void Client::applyInputToState(state, input)
applyInputToState(state, input) ==
    ClientMoveBy(state, input, FMul(F(5 * FScale), input.deltaTime),
                 cosf(YawRad(input.yaw)), sinf(YawRad(input.yaw)))

(***************************************************************************)
(* InputHistory (net_common.hpp:375-405).  inputs[i] of the code is        *)
(* inputs[i+1] here; a slot never written is Uninit.                       *)
(***************************************************************************)
NewInputHistory ==
    [inputs |-> [i \in 1..INPUT_BUFFER_SIZE |-> Uninit],
     predictedStates |-> [i \in 1..INPUT_BUFFER_SIZE |-> Uninit],
     head |-> 0, count |-> 0]

\* mutant of addInput: head stays where it is when the ring is full
addInputOverNewest(h, input, predicted) ==
    LET idx == (h.head + h.count) % INPUT_BUFFER_SIZE
    IN  [inputs |-> [h.inputs EXCEPT ![idx + 1] = input],
         predictedStates |-> [h.predictedStates EXCEPT ![idx + 1] = predicted],
         head |-> h.head,
         count |-> IF h.count < INPUT_BUFFER_SIZE THEN h.count + 1 ELSE h.count]

addInput(h, input, predicted) ==
    LET idx == (h.head + h.count) % INPUT_BUFFER_SIZE
    IN  [inputs |-> [h.inputs EXCEPT ![idx + 1] = input],
         predictedStates |-> [h.predictedStates EXCEPT ![idx + 1] = predicted],
         head |-> IF h.count < INPUT_BUFFER_SIZE THEN h.head
                  ELSE (h.head + 1) % INPUT_BUFFER_SIZE,
         count |-> IF h.count < INPUT_BUFFER_SIZE THEN h.count + 1 ELSE h.count]

\* mutant of acknowledgeUpTo: "<" for "<=", the input numbered `sequence` stays
RECURSIVE acknowledgeUpToExclusive(_, _)
acknowledgeUpToExclusive(h, sequence) ==
    IF h.count > 0 /\ U32Lt(h.inputs[h.head + 1].sequence, sequence)
    THEN acknowledgeUpToExclusive(
             [h EXCEPT !.head = (@ + 1) % INPUT_BUFFER_SIZE, !.count = @ - 1], sequence)
    ELSE h

RECURSIVE acknowledgeUpTo(_, _)
acknowledgeUpTo(h, sequence) ==
    IF h.count > 0 /\ U32Le(h.inputs[h.head + 1].sequence, sequence)
    THEN acknowledgeUpTo(
             [h EXCEPT !.head = (@ + 1) % INPUT_BUFFER_SIZE, !.count = @ - 1], sequence)
    ELSE h

getUnacknowledged(h) ==
    [i \in 1..h.count |-> h.inputs[((h.head + i - 1) % INPUT_BUFFER_SIZE) + 1]]

(***************************************************************************)
(* Bit operations on uint32_t, for the ack bitfield.                       *)
(***************************************************************************)
\* (a << s) for 0 <= s < 32
U32Shl(a, s) ==
    IF s >= 16
    THEN <<(a[2] * (2 ^ (s - 16))) % 65536, 0>>
    ELSE <<(a[1] * (2 ^ s) + (a[2] \div (2 ^ (16 - s)))) % 65536, (a[2] * (2 ^ s)) % 65536>>

\* a | (1 << k) for 0 <= k < 32
U32SetBit(a, k) ==
    IF k >= 16
    THEN (IF (a[1] \div (2 ^ (k - 16))) % 2 = 1 THEN a ELSE <<a[1] + 2 ^ (k - 16), a[2]>>)
    ELSE (IF (a[2] \div (2 ^ k)) % 2 = 1 THEN a ELSE <<a[1], a[2] + 2 ^ k>>)

\* mutant of AckUpdate: remoteSequence follows an older packet too
AckUpdateFollowing(remoteSequence, ackBits, sequence) ==
    IF U32Gt(sequence, remoteSequence)
    THEN [remoteSequence |-> sequence,
          ackBits |-> IF U32Sub(sequence, remoteSequence)[1] = 0
                         /\ U32Sub(sequence, remoteSequence)[2] < 32
                      THEN U32SetBit(U32Shl(ackBits, U32Sub(sequence, remoteSequence)[2]), 0)
                      ELSE U32(1)]
    ELSE [remoteSequence |-> sequence, ackBits |-> ackBits]

\* the sequence/ack bookkeeping of updateAcks, on the triple it touches
AckUpdate(remoteSequence, ackBits, sequence) ==
    IF U32Gt(sequence, remoteSequence)
    THEN LET shift == U32Sub(sequence, remoteSequence)
         IN  [remoteSequence |-> sequence,
              ackBits |-> IF shift[1] = 0 /\ shift[2] < 32
                          THEN U32SetBit(U32Shl(ackBits, shift[2]), 0)
                          ELSE U32(1)]
    ELSE IF U32Lt(sequence, remoteSequence)
    THEN LET diff == U32Sub(remoteSequence, sequence)
         IN  [remoteSequence |-> remoteSequence,
              ackBits |-> IF diff[1] = 0 /\ diff[2] < 32
                          THEN U32SetBit(ackBits, diff[2])
                          ELSE ackBits]
    ELSE [remoteSequence |-> remoteSequence, ackBits |-> ackBits]

(***************************************************************************)
(* PlayerState and Connection (net_common.hpp:114-120, 294-317)            *)
(***************************************************************************)
\* PlayerState(): value-initialized, every field zero
NewPlayerState ==
    [playerId |-> U32(0), tick |-> U32(0), position |-> Vec3(F(0), F(0), F(0)),
     yaw |-> F(0), pitch |-> F(0), lastProcessedInput |-> U32(0)]

\* the state both sides give a player at spawn: position (0, 1.7, 5), yaw -90
Spawned(state, playerId) ==
    [state EXCEPT !.playerId = playerId, !.position = Vec3(F(0), F(170), F(500)),
                  !.yaw = F(0 - 9000), !.pitch = F(0)]

NoAddress == "0.0.0.0:0"

NewConnection ==
    [playerId |-> U32(0), address |-> NoAddress, state |-> "DISCONNECTED",
     localSequence |-> U32(0), remoteSequence |-> U32(0), ackBits |-> U32(0),
     lastReceiveTime |-> 0, lastSendTime |-> 0,
     pendingInputs |-> <<>>, lastProcessedInput |-> U32(0)]

\* the orders in which a map with key set S can be iterated
Orders(S) ==
    {o \in [1..Cardinality(S) -> S] : \A i, j \in 1..Cardinality(S) : o[i] = o[j] => i = j}

(***************************************************************************)
(* Host (net_host.hpp).  A handler works on a record x:                    *)
(*   x.h          the Host object                                          *)
(*   x.out        the datagrams sent so far in this call                   *)
(*   x.dispatched whether handlePacket was called                          *)
(*   x.header     the header receivePackets read                           *)
(*   x.handler    the handler handlePacket called for the packet           *)
(*   x.decoded    the PlayerInputs handleInput read                        *)
(*   x.applied    per connection, the sequence numbers of the inputs       *)
(*                applyInput applied to the player's state                 *)
(*   x.events     the callbacks called, in order, with their argument      *)
(*   x.ticks      the number of calls of processTick                       *)
(*   x.heard      per connection, the sequence numbers of the packets      *)
(*                received from its peer                                   *)
(*   x.held       per callback called, whether connections_ and players_   *)
(*                held its argument when it was called                     *)
(* and returns the record afterwards.                                      *)
(***************************************************************************)
\* Host(): the accumulators count time in units of 1/TimeUnitsPerSecond s;
\* startTime is the clock reading getTime() measures from
NewHost ==
    [running |-> FALSE, currentTick |-> U32(0), nextPlayerId |-> U32(1),
     tickAccumulator |-> 0, snapshotAccumulator |-> 0, startTime |-> 0,
     connections |-> <<>>, players |-> <<>>]

HostCall(h) ==
    [h |-> h, out |-> {}, dispatched |-> FALSE, header |-> NewHeader, handler |-> "none",
     decoded |-> <<>>, applied |-> <<>>, events |-> <<>>, ticks |-> 0, heard |-> <<>>,
     held |-> <<>>]

\* if (callback) callback(playerId)
Notified(x, callback, playerId) ==
    [x EXCEPT !.events = Append(@, [callback |-> callback, playerId |-> playerId])]

\* what connections_ and players_ hold of playerId where its callback is called
Witnessed(x, playerId) ==
    [x EXCEPT !.held = Append(@, [connection |-> playerId \in DOMAIN x.h.connections,
                                  player |-> playerId \in DOMAIN x.h.players])]

\* sendTo(conn, buffer)
Sent(conn, buffer) == [to |-> conn.address, data |-> Datagram(buffer)]

\* header.payloadSize = buffer.writePos - headerPos - 22; savedPos = buffer.writePos;
\* buffer.writePos = headerPos; buffer.writeHeader(header); buffer.writePos = savedPos
PatchHeader(b, headerPos, header) ==
    SeekWrite(writeHeader(SeekWrite(b, headerPos),
                          [header EXCEPT !.payloadSize = (b.writePos - headerPos - 22) % 65536]),
              b.writePos)

\* Host::findConnection: the key of the connection with this address, if any
findConnection(h, addr) ==
    {id \in DOMAIN h.connections : h.connections[id].address = addr}

\* Host::sendConnectAccept
sendConnectAccept(x, id, now) ==
    [x EXCEPT
       !.h.connections[id].localSequence = U32Inc(@),
       !.h.connections[id].lastSendTime = now,
       !.out = @ \cup
          {Sent(x.h.connections[id],
                writeU32(writeU32(writeHeader(EmptyBuffer,
                    [NewHeader EXCEPT !.type = CONNECT_ACCEPT,
                                      !.sequence = U32Inc(x.h.connections[id].localSequence),
                                      !.tick = x.h.currentTick]),
                  x.h.connections[id].playerId), x.h.currentTick))}]

RECURSIVE writePlayerStates(_, _, _)
writePlayerStates(b, players, order) ==
    IF order = <<>> THEN b
    ELSE writePlayerStates(writePlayerState(b, players[Head(order)]), players, Tail(order))

\* the three static cubes of the world snapshot
Cubes ==
    <<[entityId |-> U32(1), entityType |-> 1, position |-> Vec3(F(0), F(100), F(0)),
       velocity |-> Vec3(F(0), F(0), F(0)), yaw |-> F(0), pitch |-> F(0)],
      [entityId |-> U32(2), entityType |-> 1, position |-> Vec3(F(500), F(100), F(300)),
       velocity |-> Vec3(F(0), F(0), F(0)), yaw |-> F(0), pitch |-> F(0)],
      [entityId |-> U32(3), entityType |-> 1, position |-> Vec3(F(0 - 300), F(50), F(0 - 500)),
       velocity |-> Vec3(F(0), F(0), F(0)), yaw |-> F(0), pitch |-> F(0)]>>

\* Host::sendWorldSnapshot; order is the iteration order of players_
sendWorldSnapshot(x, id, order) ==
    [x EXCEPT
       !.h.connections[id].localSequence = U32Inc(@),
       !.out = @ \cup
          {Sent(x.h.connections[id],
                PatchHeader(
                    writeEntityState(writeEntityState(writeEntityState(
                        writeU8(writePlayerStates(
                                    writeU8(Reserve(EmptyBuffer, 22),
                                            Cardinality(DOMAIN x.h.players) % 256),
                                    x.h.players, order),
                                3),
                        Cubes[1]), Cubes[2]), Cubes[3]),
                    EmptyBuffer.writePos,
                    [NewHeader EXCEPT !.type = WORLD_SNAPSHOT,
                                      !.sequence = U32Inc(x.h.connections[id].localSequence),
                                      !.tick = x.h.currentTick]))}]

\* the connections a broadcast goes to
Connected(h) == {id \in DOMAIN h.connections : h.connections[id].state = "CONNECTED"}

\* ++conn.localSequence for each connection of targets
Bumped(connections, targets) ==
    [id \in DOMAIN connections |->
       IF id \in targets THEN [connections[id] EXCEPT !.localSequence = U32Inc(@)]
       ELSE connections[id]]

\* mutant of broadcastEntityCreate: the new peer is not left out
broadcastEntityCreateToAll(x, entityId) ==
    [x EXCEPT
       !.h.connections = Bumped(@, Connected(x.h)),
       !.out = @ \cup
          {Sent(x.h.connections[id],
                writeVec3(writeU8(writeU32(writeHeader(EmptyBuffer,
                    [NewHeader EXCEPT !.type = ENTITY_CREATE,
                                      !.sequence = U32Inc(x.h.connections[id].localSequence),
                                      !.tick = x.h.currentTick]),
                  entityId), 0), x.h.players[entityId].position)) :
             id \in Connected(x.h)}]

\* Host::broadcastEntityCreate
broadcastEntityCreate(x, entityId) ==
    [x EXCEPT
       !.h.connections = Bumped(@, Connected(x.h) \ {entityId}),
       !.out = @ \cup
          {Sent(x.h.connections[id],
                writeVec3(writeU8(writeU32(writeHeader(EmptyBuffer,
                    [NewHeader EXCEPT !.type = ENTITY_CREATE,
                                      !.sequence = U32Inc(x.h.connections[id].localSequence),
                                      !.tick = x.h.currentTick]),
                  entityId), 0), x.h.players[entityId].position)) :
             id \in Connected(x.h) \ {entityId}}]

\* Host::broadcastEntityDestroy
broadcastEntityDestroy(x, entityId) ==
    [x EXCEPT
       !.h.connections = Bumped(@, Connected(x.h)),
       !.out = @ \cup
          {Sent(x.h.connections[id],
                writeU32(writeHeader(EmptyBuffer,
                    [NewHeader EXCEPT !.type = ENTITY_DESTROY,
                                      !.sequence = U32Inc(x.h.connections[id].localSequence),
                                      !.tick = x.h.currentTick]),
                  entityId)) :
             id \in Connected(x.h)}]

\* mutant of AddPlayer: nextPlayerId_ is not incremented
AddPlayerKeepingCounter(x, playerId, fromAddr, now) ==
    [x EXCEPT
       !.h.connections =
          (playerId :> [NewConnection EXCEPT !.playerId = playerId, !.address = fromAddr,
                                             !.state = "CONNECTED", !.lastReceiveTime = now,
                                             !.localSequence = U32(0),
                                             !.remoteSequence = U32(0)]) @@ @,
       !.h.players = (playerId :> Spawned(NewPlayerState, playerId)) @@ @]

\* the new Connection and PlayerState of Host::handleConnectRequest
AddPlayer(x, playerId, fromAddr, now) ==
    [x EXCEPT
       !.h.nextPlayerId = U32Inc(@),
       !.h.connections =
          (playerId :> [NewConnection EXCEPT !.playerId = playerId, !.address = fromAddr,
                                             !.state = "CONNECTED", !.lastReceiveTime = now,
                                             !.localSequence = U32(0),
                                             !.remoteSequence = U32(0)]) @@ @,
       !.h.players = (playerId :> Spawned(NewPlayerState, playerId)) @@ @]

\* mutant of handleConnectRequest: every request makes a new player
handleConnectRequestAnew(x, fromAddr, now, order) ==
    Notified(
        Witnessed(
            broadcastEntityCreate(
                sendWorldSnapshot(
                    sendConnectAccept(AddPlayer(x, x.h.nextPlayerId, fromAddr, now),
                                      x.h.nextPlayerId, now),
                    x.h.nextPlayerId, order),
                x.h.nextPlayerId),
            x.h.nextPlayerId),
        "onPlayerConnected", x.h.nextPlayerId)

\* Host::handleConnectRequest
handleConnectRequest(x, fromAddr, now, order) ==
    IF \E id \in findConnection(x.h, fromAddr) : x.h.connections[id].state = "CONNECTED"
    THEN sendConnectAccept(x, CHOOSE id \in findConnection(x.h, fromAddr) :
                                  x.h.connections[id].state = "CONNECTED", now)
    ELSE Notified(
             Witnessed(
                 broadcastEntityCreate(
                     sendWorldSnapshot(
                         sendConnectAccept(AddPlayer(x, x.h.nextPlayerId, fromAddr, now),
                                           x.h.nextPlayerId, now),
                         x.h.nextPlayerId, order),
                     x.h.nextPlayerId),
                 x.h.nextPlayerId),
             "onPlayerConnected", x.h.nextPlayerId)

\* players_.erase(playerId); connections_.erase(playerId)
Erase(x, playerId) ==
    [x EXCEPT !.h.players = [id \in DOMAIN @ \ {playerId} |-> @[id]],
              !.h.connections = [id \in DOMAIN @ \ {playerId} |-> @[id]]]

\* mutant of handleDisconnect: the player's state is left in players_
handleDisconnectKeepingPlayer(x, playerId) ==
    Notified(Witnessed([broadcastEntityDestroy(x, playerId) EXCEPT
                          !.h.connections = [id \in DOMAIN @ \ {playerId} |-> @[id]]],
                       playerId),
             "onPlayerDisconnected", playerId)

\* mutant of handleDisconnect: the callback is called before the maps are erased
handleDisconnectNotifyingFirst(x, playerId) ==
    Erase(Notified(Witnessed(broadcastEntityDestroy(x, playerId), playerId),
                   "onPlayerDisconnected", playerId),
          playerId)

\* Host::handleDisconnect
handleDisconnect(x, playerId) ==
    Notified(Witnessed(Erase(broadcastEntityDestroy(x, playerId), playerId), playerId),
             "onPlayerDisconnected", playerId)

\* the loop of Host::handleInput: the inputs it reads from the buffer
RECURSIVE readInputs(_, _)
readInputs(b, inputCount) ==
    IF inputCount = 0 THEN <<>>
    ELSE <<readPlayerInput(b)[1]>> \o readInputs(readPlayerInput(b)[2], inputCount - 1)

\* the pushes of Host::handleInput, for the inputs read
PushNewer(x, id, inputs) ==
    LET newer(input) == U32Gt(input.sequence, x.h.connections[id].lastProcessedInput)
    IN  [x EXCEPT !.h.connections[id].pendingInputs = @ \o SelectSeq(inputs, newer),
                  !.decoded = inputs, !.handler = "handleInput"]

\* mutant of handleInput: the connection is marked as having processed the
\* inputs as soon as they are read
handleInputMarking(x, id, buffer, payloadSize) ==
    [PushNewer(x, id, readInputs(buffer, payloadSize \div 21))
       EXCEPT !.h.connections[id].lastProcessedInput =
                 IF payloadSize \div 21 = 0 THEN @
                 ELSE readInputs(buffer, payloadSize \div 21)[payloadSize \div 21].sequence]

\* Host::handleInput
handleInput(x, id, buffer, payloadSize) ==
    PushNewer(x, id, readInputs(buffer, payloadSize \div 21))

\* Host::updateAcks
HostUpdateAcks(conn, header) ==
    [conn EXCEPT
       !.remoteSequence = AckUpdate(conn.remoteSequence, conn.ackBits, header.sequence).remoteSequence,
       !.ackBits = AckUpdate(conn.remoteSequence, conn.ackBits, header.sequence).ackBits]

\* conn->lastReceiveTime = now; updateAcks(*conn, header)
Touch(x, id, now, header) ==
    [x EXCEPT !.h.connections[id] = HostUpdateAcks([@ EXCEPT !.lastReceiveTime = now], header)]

\* the cases of Host::handlePacket that need the connection found
HandleFrom(x, id, header, buffer, now) ==
    CASE header.type = DISCONNECT -> handleDisconnect(x, x.h.connections[id].playerId)
      [] header.type = HEARTBEAT -> Touch(x, id, now, header)
      [] header.type = INPUT /\ x.h.connections[id].state = "CONNECTED" ->
           handleInput(Touch(x, id, now, header), id, buffer, header.payloadSize)
      [] header.type = ACK -> Touch(x, id, now, header)
      [] OTHER -> x

\* mutant of HostHandlePacket: a packet without a case, or without the
\* connection its case needs, is taken for a CONNECT_REQUEST
HostHandlePacketOpening(x, header, buffer, fromAddr, now, order) ==
    IF \/ header.type \notin {DISCONNECT, HEARTBEAT, INPUT, ACK}
       \/ findConnection(x.h, fromAddr) = {}
    THEN handleConnectRequest(x, fromAddr, now, order)
    ELSE HandleFrom(x, CHOOSE id \in findConnection(x.h, fromAddr) : TRUE, header, buffer, now)

\* Host::handlePacket
HostHandlePacket(x, header, buffer, fromAddr, now, order) ==
    IF header.type = CONNECT_REQUEST THEN handleConnectRequest(x, fromAddr, now, order)
    ELSE IF findConnection(x.h, fromAddr) = {} THEN x
    ELSE HandleFrom(x, CHOOSE id \in findConnection(x.h, fromAddr) : TRUE, header, buffer, now)

\* after buffer.readHeader(): if (!header.isValid()) continue; handlePacket(...)
HostDispatch(x, r, fromAddr, now, order) ==
    IF ~isValid(r[1]) THEN [x EXCEPT !.header = r[1]]
    ELSE HostHandlePacket([x EXCEPT !.header = r[1], !.dispatched = TRUE],
                          r[1], r[2], fromAddr, now, order)

\* one iteration of the loop of Host::receivePackets, on a datagram received
HostReceivePacket(x, datagram, fromAddr, now, order) ==
    HostDispatch(x, readHeader(Received(datagram)), fromAddr, now, order)

\* conn.pendingInputs.pop()
PopInput(x, id) == [x EXCEPT !.h.connections[id].pendingInputs = Tail(@)]

\* applyInput(id, input); conn.lastProcessedInput = input.sequence; and the
\* player's lastProcessedInput if the player exists
ApplyPending(x, id, input) ==
    [x EXCEPT
       !.h.players = IF id \in DOMAIN @
                     THEN [applyInput(@, id, input, x.h.currentTick)
                             EXCEPT ![id].lastProcessedInput = input.sequence]
                     ELSE applyInput(@, id, input, x.h.currentTick),
       !.h.connections[id].lastProcessedInput = input.sequence,
       !.applied = IF id \in DOMAIN x.h.players
                   THEN (id :> ((IF id \in DOMAIN @ THEN @[id] ELSE <<>>)
                                 \o <<input.sequence>>)) @@ @
                   ELSE @]

\* mutant of ProcessInput: the sequence test of processTick left out
ProcessInputUnfiltered(x, id, input) == ApplyPending(x, id, input)

\* the body of the while loop of Host::processTick, the input popped
ProcessInput(x, id, input) ==
    IF U32Gt(input.sequence, x.h.connections[id].lastProcessedInput)
    THEN ApplyPending(x, id, input)
    ELSE x

\* while (!conn.pendingInputs.empty()) ...
RECURSIVE DrainInputs(_, _)
DrainInputs(x, id) ==
    IF x.h.connections[id].pendingInputs = <<>> THEN x
    ELSE DrainInputs(ProcessInput(PopInput(x, id), id, Head(x.h.connections[id].pendingInputs)),
                     id)

\* for (auto& [id, conn] : connections_): a connection's loop touches only
\* its own connection and player, so the order of the ids does not matter
RECURSIVE DrainAll(_, _)
DrainAll(x, ids) ==
    IF ids = {} THEN x
    ELSE DrainAll(DrainInputs(x, CHOOSE id \in ids : TRUE), ids \ {CHOOSE id \in ids : TRUE})

\* Host::processTick
processTick(x) ==
    DrainAll([x EXCEPT !.h.currentTick = U32Inc(@), !.ticks = @ + 1],
             DOMAIN x.h.connections)

\* Host::sendStateUpdates; order is the iteration order of players_
sendStateUpdates(x, order) ==
    [x EXCEPT
       !.h.connections = Bumped(@, Connected(x.h)),
       !.out = @ \cup
          {Sent(x.h.connections[id],
                PatchHeader(
                    writePlayerStates(writeU8(Reserve(EmptyBuffer, 22),
                                              Cardinality(DOMAIN x.h.players) % 256),
                                      x.h.players, order),
                    EmptyBuffer.writePos,
                    [NewHeader EXCEPT !.type = STATE_UPDATE,
                                      !.sequence = U32Inc(x.h.connections[id].localSequence),
                                      !.ack = x.h.connections[id].remoteSequence,
                                      !.ackBits = x.h.connections[id].ackBits,
                                      !.tick = x.h.currentTick])) :
             id \in Connected(x.h)}]

\* Host::getLocalPlayer: the host's own player, id 0, made on first use
getLocalPlayer(h) ==
    IF U32(0) \in DOMAIN h.players THEN h
    ELSE [h EXCEPT !.players = (U32(0) :> Spawned(NewPlayerState, U32(0))) @@ @]

(***************************************************************************)
(* Host::update and Host::stop (net_host.hpp).  Time is counted in units   *)
(* of 1/TimeUnitsPerSecond s, half a tick, so that every interval of       *)
(* net_common.hpp is a whole number of units.                              *)
(***************************************************************************)
MAX_PLAYERS == 16
TICK_RATE == 60
SNAPSHOT_RATE == 20

TimeUnitsPerSecond == 2 * TICK_RATE

TICK_INTERVAL == TimeUnitsPerSecond \div TICK_RATE

SNAPSHOT_INTERVAL == TimeUnitsPerSecond \div SNAPSHOT_RATE

CONNECTION_TIMEOUT == 10 * TimeUnitsPerSecond

HEARTBEAT_INTERVAL == 1 * TimeUnitsPerSecond

\* the ids 0..n in rising and in falling order
Ascending(n) == [i \in 1..(n + 1) |-> U32(i - 1)]

Descending(n) == [i \in 1..(n + 1) |-> U32(n + 1 - i)]

\* two of the orders in which the maps of a host with ids up to n can be
\* iterated
SampleOrders(n) == {Ascending(n), Descending(n)}

\* the ids of an order that are in S, in that order
Present(order, S) ==
    LET known(id) == id \in S
    IN  SelectSeq(order, known)

\* a message of nothing but a header
HeaderOnly(header) == writeHeader(EmptyBuffer, header)

\* Host::sendDisconnect
HostSendDisconnect(x, id) ==
    [x EXCEPT
       !.h.connections[id].localSequence = U32Inc(@),
       !.out = @ \cup
          {Sent(x.h.connections[id],
                HeaderOnly([NewHeader EXCEPT
                              !.type = DISCONNECT,
                              !.sequence = U32Inc(x.h.connections[id].localSequence)]))}]

\* Host::sendHeartbeat
HostSendHeartbeat(x, id, now) ==
    [x EXCEPT
       !.h.connections[id].localSequence = U32Inc(@),
       !.h.connections[id].lastSendTime = now,
       !.out = @ \cup
          {Sent(x.h.connections[id],
                HeaderOnly([NewHeader EXCEPT
                              !.type = HEARTBEAT,
                              !.sequence = U32Inc(x.h.connections[id].localSequence),
                              !.ack = x.h.connections[id].remoteSequence,
                              !.ackBits = x.h.connections[id].ackBits,
                              !.tick = x.h.currentTick]))}]

\* for (auto& [id, conn] : connections_) sendDisconnect(conn): a send
\* touches only its own connection, so the order of the ids does not matter
RECURSIVE DisconnectAll(_, _)
DisconnectAll(x, ids) ==
    IF ids = {} THEN x
    ELSE DisconnectAll(HostSendDisconnect(x, CHOOSE id \in ids : TRUE),
                       ids \ {CHOOSE id \in ids : TRUE})

\* Host::stop; the socket is valid exactly while the host runs
stop(x) ==
    [(IF x.h.running THEN DisconnectAll(x, DOMAIN x.h.connections) ELSE x)
       EXCEPT !.h.connections = <<>>, !.h.players = <<>>, !.h.running = FALSE]

\* Host::start, the sockets set up; the accumulators, the next player id,
\* the connections and the players are left as they are
start(h, clock) ==
    [h EXCEPT !.running = TRUE, !.currentTick = U32(0), !.startTime = clock]

\* the packet just handled, noted for the connection it was handled on:
\* the one its sender had when it arrived (known) and still has
Heard(x, fromAddr, known) ==
    IF x.dispatched /\ known \cap findConnection(x.h, fromAddr) # {}
    THEN [x EXCEPT !.heard =
            [id \in DOMAIN @ \cup known |->
               (IF id \in DOMAIN @ THEN @[id] ELSE {})
               \cup (IF id \in known THEN {x.header.sequence} ELSE {})]]
    ELSE x

\* the loop of Host::receivePackets over the datagrams that have arrived
RECURSIVE HostReceivePackets(_, _, _, _)
HostReceivePackets(x, batch, now, order) ==
    IF batch = <<>> THEN x
    ELSE HostReceivePackets(
             Heard(HostReceivePacket([x EXCEPT !.dispatched = FALSE],
                                     Head(batch).data, Head(batch).from, now,
                                     Present(order,
                                             DOMAIN x.h.players \cup {x.h.nextPlayerId})),
                   Head(batch).from, findConnection(x.h, Head(batch).from)),
             Tail(batch), now, order)

\* mutant of TimedOut: a connection is dropped once the timeout is reached
TimedOutAtTimeout(h, now) ==
    {id \in DOMAIN h.connections :
       now - h.connections[id].lastReceiveTime >= CONNECTION_TIMEOUT}

\* the first loop of Host::checkTimeouts: the connections to remove
TimedOut(h, now) ==
    {id \in DOMAIN h.connections :
       now - h.connections[id].lastReceiveTime > CONNECTION_TIMEOUT}

\* the second loop of Host::checkTimeouts
RECURSIVE RemoveAll(_, _)
RemoveAll(x, toRemove) ==
    IF toRemove = <<>> THEN x
    ELSE RemoveAll(Notified(Witnessed(Erase(broadcastEntityDestroy(x, Head(toRemove)),
                                            Head(toRemove)),
                                      Head(toRemove)),
                            "onPlayerDisconnected", Head(toRemove)),
                   Tail(toRemove))

\* Host::checkTimeouts; order is the iteration order of connections_
checkTimeouts(x, now, order) == RemoveAll(x, Present(order, TimedOut(x.h, now)))

\* while (tickAccumulator_ >= TICK_INTERVAL) { processTick(); ... }
RECURSIVE TickWhile(_)
TickWhile(x) ==
    IF x.h.tickAccumulator >= TICK_INTERVAL
    THEN TickWhile([processTick(x) EXCEPT !.h.tickAccumulator = @ - TICK_INTERVAL])
    ELSE x

\* mutant of Ticks: an if in place of the while, one tick per update at most
TicksOnce(x, deltaTime) ==
    IF x.h.tickAccumulator + deltaTime >= TICK_INTERVAL
    THEN [processTick(x) EXCEPT !.h.tickAccumulator = @ + deltaTime - TICK_INTERVAL]
    ELSE [x EXCEPT !.h.tickAccumulator = @ + deltaTime]

\* tickAccumulator_ += deltaTime and the loop after it
Ticks(x, deltaTime) == TickWhile([x EXCEPT !.h.tickAccumulator = @ + deltaTime])

\* while (snapshotAccumulator_ >= SNAPSHOT_INTERVAL) { sendStateUpdates(); ... }
RECURSIVE SnapshotWhile(_, _)
SnapshotWhile(x, order) ==
    IF x.h.snapshotAccumulator >= SNAPSHOT_INTERVAL
    THEN SnapshotWhile([sendStateUpdates(x, Present(order, DOMAIN x.h.players))
                          EXCEPT !.h.snapshotAccumulator = @ - SNAPSHOT_INTERVAL], order)
    ELSE x

\* mutant of Snapshots: a while in place of the if, a round for every
\* snapshot interval the accumulator holds
SnapshotsCatchingUp(x, deltaTime, order) ==
    SnapshotWhile([x EXCEPT !.h.snapshotAccumulator = @ + deltaTime], order)

\* snapshotAccumulator_ += deltaTime and the if after it
Snapshots(x, deltaTime, order) ==
    IF x.h.snapshotAccumulator + deltaTime >= SNAPSHOT_INTERVAL
    THEN [sendStateUpdates(x, Present(order, DOMAIN x.h.players))
            EXCEPT !.h.snapshotAccumulator = @ + deltaTime - SNAPSHOT_INTERVAL]
    ELSE [x EXCEPT !.h.snapshotAccumulator = @ + deltaTime]

\* the connections the last loop of Host::update sends a heartbeat to
HeartbeatDue(h, now) ==
    {id \in Connected(h) : now - h.connections[id].lastSendTime >= HEARTBEAT_INTERVAL}

RECURSIVE HeartbeatAll(_, _, _)
HeartbeatAll(x, ids, now) ==
    IF ids = {} THEN x
    ELSE HeartbeatAll(HostSendHeartbeat(x, CHOOSE id \in ids : TRUE, now),
                      ids \ {CHOOSE id \in ids : TRUE}, now)

Heartbeats(x, now) == HeartbeatAll(x, HeartbeatDue(x.h, now), now)

\* Host::update(deltaTime) at time now, with the datagrams that have arrived
HostUpdate(x, deltaTime, now, batch, order) ==
    IF ~x.h.running THEN x
    ELSE Heartbeats(
             Snapshots(
                 Ticks(checkTimeouts(HostReceivePackets(x, batch, now, order), now, order),
                       deltaTime),
                 deltaTime, order),
             now)

(***************************************************************************)
(* Client (net_client.hpp).  A handler works on a record y:                *)
(*   y.c           the Client object                                       *)
(*   y.out         the datagrams sent so far in this call                  *)
(*   y.dispatched  whether handlePacket was called                         *)
(*   y.header      the header receivePackets read                          *)
(*   y.handler     the handler handlePacket called for the packet          *)
(*   y.buffer      the PacketBuffer being read                             *)
(*   y.playerCount the player count a state packet announced               *)
(*   y.decoded     the PlayerStates read from a state packet               *)
(*   y.entities    the EntityStates read from a world snapshot             *)
(*   y.encoded     the PlayerInputs sendInput wrote into its packet        *)
(*   y.events      the callbacks called, in order, with their argument     *)
(* and returns the record afterwards.  The constructor leaves ackBits_,    *)
(* connectStartTime_ and the scalar fields of localState_ and              *)
(* lastServerState_ uninitialized: junk is the word the object's memory    *)
(* happens to be filled with.                                              *)
(***************************************************************************)
HostAddress == "host:7777"

NewClient(address, junk) ==
    [address |-> address, state |-> "DISCONNECTED", playerId |-> U32(0),
     serverTick |-> U32(0), localSequence |-> U32(0), remoteSequence |-> U32(0),
     ackBits |-> junk, inputSequence |-> U32(0),
     lastSendTime |-> 0, lastReceiveTime |-> 0, connectStartTime |-> Uninit,
     startTime |-> 0,
     localState |-> [playerId |-> junk, tick |-> junk, position |-> Vec3(F(0), F(0), F(0)),
                     yaw |-> junk, pitch |-> junk, lastProcessedInput |-> junk],
     lastServerState |-> [playerId |-> junk, tick |-> junk,
                          position |-> Vec3(F(0), F(0), F(0)),
                          yaw |-> junk, pitch |-> junk, lastProcessedInput |-> junk],
     remotePlayers |-> <<>>, interpolationStates |-> <<>>,
     inputHistory |-> NewInputHistory]

ClientCall(c) ==
    [c |-> c, out |-> {}, dispatched |-> FALSE, header |-> NewHeader, handler |-> "none",
     buffer |-> EmptyBuffer, playerCount |-> 0,
     decoded |-> <<>>, entities |-> <<>>, encoded |-> <<>>, events |-> <<>>]

\* sendToServer(buffer)
ToServer(c, buffer) == [to |-> HostAddress, from |-> c.address, data |-> Datagram(buffer)]

\* Client::sendConnectRequest
sendConnectRequest(y, now) ==
    [y EXCEPT
       !.c.localSequence = U32Inc(@),
       !.c.lastSendTime = now,
       !.out = @ \cup
          {ToServer(y.c, writeHeader(EmptyBuffer,
                [NewHeader EXCEPT !.type = CONNECT_REQUEST,
                                  !.sequence = U32Inc(y.c.localSequence)]))}]

\* Client::sendDisconnect
sendDisconnect(y) ==
    [y EXCEPT
       !.c.localSequence = U32Inc(@),
       !.out = @ \cup
          {ToServer(y.c, writeHeader(EmptyBuffer,
                [NewHeader EXCEPT !.type = DISCONNECT,
                                  !.sequence = U32Inc(y.c.localSequence)]))}]

\* Client::connect, at clock time `clock`: getTime() restarts from 0
connect(y, clock) ==
    sendConnectRequest([y EXCEPT !.c.state = "CONNECTING", !.c.startTime = clock,
                                 !.c.connectStartTime = 0], 0)

\* the end of Client::disconnect: the maps cleared, the history emptied
Cleared(y) ==
    [y EXCEPT !.c.remotePlayers = <<>>, !.c.interpolationStates = <<>>,
              !.c.inputHistory.count = 0, !.c.inputHistory.head = 0]

\* mutant of disconnect: the input history keeps its count
disconnectKeepingHistory(y) ==
    IF y.c.state # "DISCONNECTED"
    THEN [sendDisconnect(y) EXCEPT
            !.c.state = "DISCONNECTED",
            !.events = Append(@, [callback |-> "onDisconnected"]),
            !.c.remotePlayers = <<>>, !.c.interpolationStates = <<>>]
    ELSE [y EXCEPT !.c.remotePlayers = <<>>, !.c.interpolationStates = <<>>]

\* Client::disconnect
disconnect(y) ==
    IF y.c.state # "DISCONNECTED"
    THEN Cleared([sendDisconnect(y) EXCEPT
                    !.c.state = "DISCONNECTED",
                    !.events = Append(@, [callback |-> "onDisconnected"])])
    ELSE Cleared(y)

\* the last `count` elements of a sequence
LastN(s, count) == SubSeq(s, Len(s) - count + 1, Len(s))

RECURSIVE writePlayerInputs(_, _)
writePlayerInputs(b, inputs) ==
    IF inputs = <<>> THEN b
    ELSE writePlayerInputs(writePlayerInput(b, Head(inputs)), Tail(inputs))

\* mutant of Redundant: the first `count` inputs are sent
RedundantOldest(unacked) == SubSeq(unacked, 1, IF Len(unacked) < 5 THEN Len(unacked) ELSE 5)

\* unacked[unacked.size() - count ..], count = min(unacked.size(), 5)
Redundant(unacked) == LastN(unacked, IF Len(unacked) < 5 THEN Len(unacked) ELSE 5)

\* the second half of Client::sendInput: the INPUT packet with the last
\* unacknowledged inputs
SendInputs(y) ==
    [y EXCEPT
       !.c.localSequence = U32Inc(@),
       !.encoded = Redundant(getUnacknowledged(y.c.inputHistory)),
       !.out = @ \cup
          {ToServer(y.c,
                PatchHeader(
                    writePlayerInputs(Reserve(EmptyBuffer, 22),
                                      Redundant(getUnacknowledged(y.c.inputHistory))),
                    EmptyBuffer.writePos,
                    [NewHeader EXCEPT !.type = INPUT,
                                      !.sequence = U32Inc(y.c.localSequence),
                                      !.ack = y.c.remoteSequence,
                                      !.ackBits = y.c.ackBits,
                                      !.tick = y.c.serverTick]))}]

\* inputHistory_.addInput(seqInput, predicted); localState_ = predicted
Predicted(y, seqInput, predicted) ==
    [y EXCEPT !.c.inputSequence = seqInput.sequence,
              !.c.inputHistory = addInput(@, seqInput, predicted),
              !.c.localState = predicted]

\* mutant of Predict: predicted.tick is left as applyInputToState gave it
PredictKeepingTick(y, seqInput) ==
    Predicted(y, seqInput, applyInputToState(y.c.localState, seqInput))

\* predicted = localState_; applyInputToState(predicted, seqInput);
\* predicted.tick = serverTick_
Predict(y, seqInput) ==
    Predicted(y, seqInput,
              [applyInputToState(y.c.localState, seqInput) EXCEPT !.tick = y.c.serverTick])

\* seqInput = input; seqInput.sequence = ++inputSequence_; seqInput.tick = serverTick_
Sequenced(c, input) ==
    [input EXCEPT !.sequence = U32Inc(c.inputSequence), !.tick = c.serverTick]

\* Client::sendInput
sendInput(y, input) ==
    IF y.c.state # "CONNECTED" THEN y
    ELSE SendInputs(Predict(y, Sequenced(y.c, input)))

\* Client::updateAcks
ClientUpdateAcks(c, header) ==
    [c EXCEPT
       !.remoteSequence = AckUpdate(c.remoteSequence, c.ackBits, header.sequence).remoteSequence,
       !.ackBits = AckUpdate(c.remoteSequence, c.ackBits, header.sequence).ackBits]

\* the assignments of Client::handleConnectAccept, the two words read
Accepted(y, playerId, serverTick) ==
    Notified([y EXCEPT !.c.playerId = playerId, !.c.serverTick = serverTick,
                       !.c.state = "CONNECTED",
                       !.c.localState = [Spawned(@, playerId) EXCEPT !.tick = serverTick]],
             "onConnected", playerId)

\* mutant of handleConnectAccept: the tick is read before the player id
handleConnectAcceptTickFirst(y, buffer) ==
    Accepted(y, readU32(readU32(buffer)[2])[1], readU32(buffer)[1])

\* Client::handleConnectAccept
handleConnectAccept(y, buffer) ==
    Accepted(y, readU32(buffer)[1], readU32(readU32(buffer)[2])[1])

\* a component's square in (1/FScale)^2 units, capped where the tests of
\* reconcileState no longer tell
Squared(v) ==
    IF FVal(v) > FScale \/ FVal(v) < 0 - FScale THEN FScale * FScale ELSE FVal(v) * FVal(v)

\* errorMag * errorMag
ErrorSquared(error) == Squared(error.x) + Squared(error.y) + Squared(error.z)

\* for (const auto& input : unacked) applyInputToState(corrected, input)
RECURSIVE Replay(_, _)
Replay(state, inputs) ==
    IF inputs = <<>> THEN state
    ELSE Replay(applyInputToState(state, Head(inputs)), Tail(inputs))

\* local += (target - local) * blendFactor, blendFactor = 0.1f
Blend(local, target) == FAdd(local, FMul(FSub(target, local), F(FScale \div 10)))

\* the smooth correction of reconcileState: blend when errorMag < 1.0f, else snap
Smooth(c, errorSquared, corrected) ==
    IF errorSquared < FScale * FScale
    THEN [c EXCEPT !.localState.position =
              Vec3(Blend(@.x, corrected.x), Blend(@.y, corrected.y), Blend(@.z, corrected.z))]
    ELSE [c EXCEPT !.localState.position = corrected]

\* mutant of Rollback: the unacknowledged inputs are not applied again
RollbackToReported(c, serverState, errorSquared) ==
    IF errorSquared > 1
    THEN Smooth(c, errorSquared, serverState.position)
    ELSE c

\* the rollback of reconcileState when errorMag > 0.01f
Rollback(c, serverState, errorSquared) ==
    IF errorSquared > 1
    THEN Smooth(c, errorSquared,
                Replay(serverState, getUnacknowledged(c.inputHistory)).position)
    ELSE c

\* Client::reconcileState
reconcileState(c, serverState) ==
    Rollback([c EXCEPT !.lastServerState = serverState,
                       !.inputHistory = acknowledgeUpTo(@, serverState.lastProcessedInput)],
             serverState,
             ErrorSquared(Vec3Sub(serverState.position, c.localState.position)))

\* remotePlayers_[id] = state; interpolationStates_[id].addState(state)
StoreRemote(c, state) ==
    [c EXCEPT
       !.remotePlayers = (state.playerId :> state) @@ @,
       !.interpolationStates =
          (state.playerId :> addState(IF state.playerId \in DOMAIN @ THEN @[state.playerId]
                                      ELSE NewInterpolationState, state)) @@ @]

\* the body of the player loop of handleStateUpdate (reconcile = TRUE) and of
\* handleWorldSnapshot (reconcile = FALSE); r is what readPlayerState() gave
TakePlayer(y, r, reconcile) ==
    [y EXCEPT
       !.c = IF r[1].playerId = @.playerId
             THEN (IF reconcile THEN reconcileState(@, r[1])
                   ELSE [@ EXCEPT !.localState = r[1], !.lastServerState = r[1]])
             ELSE StoreRemote(@, r[1]),
       !.buffer = r[2],
       !.decoded = Append(@, r[1])]

RECURSIVE ReadPlayers(_, _, _)
ReadPlayers(y, playerCount, reconcile) ==
    IF playerCount = 0 THEN y
    ELSE ReadPlayers(TakePlayer(y, readPlayerState(y.buffer), reconcile),
                     playerCount - 1, reconcile)

\* playerCount = buffer.readU8(), then the player loop; rc is what readU8() gave
CountedPlayers(y, rc, reconcile) ==
    ReadPlayers([y EXCEPT !.buffer = rc[2], !.playerCount = rc[1]], rc[1], reconcile)

\* Client::handleStateUpdate
handleStateUpdate(y, buffer, header) ==
    CountedPlayers([y EXCEPT !.c.serverTick = header.tick, !.handler = "handleStateUpdate"],
                   readU8(buffer), TRUE)

RECURSIVE readEntities(_, _)
readEntities(b, entityCount) ==
    IF entityCount = 0 THEN <<>>
    ELSE <<readEntityState(b)[1]>> \o readEntities(readEntityState(b)[2], entityCount - 1)

\* entityCount = buffer.readU8(), then the entity loop: the entities go to
\* onEntityCreated only
CountedEntities(y, rc) == [y EXCEPT !.buffer = rc[2], !.entities = readEntities(rc[2], rc[1])]

\* the entity half of handleWorldSnapshot
SnapshotEntities(y) == CountedEntities(y, readU8(y.buffer))

\* Client::handleWorldSnapshot
handleWorldSnapshot(y, buffer) ==
    SnapshotEntities(CountedPlayers([y EXCEPT !.handler = "handleWorldSnapshot"],
                                    readU8(buffer), FALSE))

\* the assignments of Client::handleEntityCreate, the three fields read
Created(y, entityId, type, pos) ==
    IF type = 0
    THEN [y EXCEPT !.c.remotePlayers =
              (entityId :> [NewPlayerState EXCEPT !.playerId = entityId, !.position = pos]) @@ @]
    ELSE y

\* Client::handleEntityCreate
handleEntityCreate(y, buffer) ==
    Created(y, readU32(buffer)[1], readU8(readU32(buffer)[2])[1],
            readVec3(readU8(readU32(buffer)[2])[2])[1])

\* remotePlayers_.erase(entityId); interpolationStates_.erase(entityId)
Destroyed(y, entityId) ==
    [y EXCEPT !.c.remotePlayers = [id \in DOMAIN @ \ {entityId} |-> @[id]],
              !.c.interpolationStates = [id \in DOMAIN @ \ {entityId} |-> @[id]]]

\* Client::handleEntityDestroy
handleEntityDestroy(y, buffer) == Destroyed(y, readU32(buffer)[1])

\* the switch of Client::handlePacket
ClientSwitch(y, header, buffer) ==
    CASE header.type = CONNECT_ACCEPT -> handleConnectAccept(y, buffer)
      [] header.type = CONNECT_REJECT -> disconnect(y)
      [] header.type = DISCONNECT -> disconnect(y)
      [] header.type = STATE_UPDATE -> handleStateUpdate(y, buffer, header)
      [] header.type = WORLD_SNAPSHOT -> handleWorldSnapshot(y, buffer)
      [] header.type = ENTITY_CREATE -> handleEntityCreate(y, buffer)
      [] header.type = ENTITY_DESTROY -> handleEntityDestroy(y, buffer)
      [] OTHER -> y

\* Client::handlePacket
ClientHandlePacket(y, header, buffer, now) ==
    ClientSwitch([y EXCEPT !.c = ClientUpdateAcks([@ EXCEPT !.lastReceiveTime = now], header)],
                 header, buffer)

\* after buffer.readHeader(): if (!header.isValid()) continue; handlePacket(...)
ClientDispatch(y, r, now) ==
    IF ~isValid(r[1]) THEN [y EXCEPT !.header = r[1]]
    ELSE ClientHandlePacket([y EXCEPT !.header = r[1], !.dispatched = TRUE], r[1], r[2], now)

\* one iteration of the loop of Client::receivePackets, on a datagram received
ClientReceivePacket(y, datagram, now) ==
    ClientDispatch(y, readHeader(Received(datagram)), now)

(***************************************************************************)
(* Client::update (net_client.hpp:93-128), in the time units of the host.  *)
(***************************************************************************)
\* Client::sendHeartbeat
ClientSendHeartbeat(y, now) ==
    [y EXCEPT
       !.c.localSequence = U32Inc(@),
       !.c.lastSendTime = now,
       !.out = @ \cup
          {ToServer(y.c, HeaderOnly([NewHeader EXCEPT
                                       !.type = HEARTBEAT,
                                       !.sequence = U32Inc(y.c.localSequence),
                                       !.ack = y.c.remoteSequence,
                                       !.ackBits = y.c.ackBits]))}]

\* the loop of Client::receivePackets over the datagrams that have arrived;
\* disconnect closes the socket, and recvfrom fails from then on
RECURSIVE ClientReceivePackets(_, _, _)
ClientReceivePackets(y, batch, now) ==
    IF batch = <<>> \/ y.c.state = "DISCONNECTED" THEN y
    ELSE ClientReceivePackets(ClientReceivePacket(y, Head(batch).data, now), Tail(batch), now)

\* mutant of Connecting: the client gives up once the timeout is reached
ConnectingUntilTimeout(y, now) ==
    IF now - y.c.connectStartTime >= CONNECTION_TIMEOUT THEN disconnect(y)
    ELSE IF now - y.c.lastSendTime > TimeUnitsPerSecond THEN sendConnectRequest(y, now)
    ELSE y

\* Client::update while CONNECTING, the packets received
Connecting(y, now) ==
    IF now - y.c.connectStartTime > CONNECTION_TIMEOUT THEN disconnect(y)
    ELSE IF now - y.c.lastSendTime > TimeUnitsPerSecond THEN sendConnectRequest(y, now)
    ELSE y

\* mutant of WhileConnected: the silence of the server is not noticed
WhileConnectedUnaware(y, now) ==
    IF now - y.c.lastSendTime > HEARTBEAT_INTERVAL THEN ClientSendHeartbeat(y, now)
    ELSE y

\* Client::update while CONNECTED, the packets received
WhileConnected(y, now) ==
    IF now - y.c.lastReceiveTime > CONNECTION_TIMEOUT THEN disconnect(y)
    ELSE IF now - y.c.lastSendTime > HEARTBEAT_INTERVAL THEN ClientSendHeartbeat(y, now)
    ELSE y

\* the rest of Client::update after receivePackets
ClientTimers(y, now) ==
    IF y.c.state = "CONNECTING" THEN Connecting(y, now)
    ELSE IF y.c.state = "CONNECTED" THEN WhileConnected(y, now)
    ELSE y

\* Client::update at time now, with the datagrams that have arrived
ClientUpdate(y, now, batch) ==
    IF y.c.state = "DISCONNECTED" THEN y
    ELSE ClientTimers(ClientReceivePackets(y, batch, now), now)

(***************************************************************************)
(* Codec scenario: a value is written into an empty PacketBuffer, then     *)
(* read back from readPos = 0 (net_test.cpp:71-173).                       *)
(***************************************************************************)
U32Samples == {U32(0), U32(42), <<57005, 48879>>, <<65535, 65535>>}

TickSamples == {U32(100), <<32768, 9999>>}

PosSamples == {F(150), <<49353, 62915>>}

TypeSamples == {CONNECT_REQUEST, STATE_UPDATE, RELIABLE_DATA, 153}

HeaderSamples ==
    {[NewHeader EXCEPT !.type = t, !.sequence = s, !.ack = a, !.ackBits = ab,
                       !.tick = k, !.payloadSize = p] :
        t \in TypeSamples, s \in U32Samples, a \in U32Samples, ab \in U32Samples,
        k \in TickSamples, p \in {0, 128, 65535}}

InputSamples ==
    [sequence : U32Samples, tick : TickSamples, keys : {0, 21, 255},
     yaw : {F(4500), <<49353, 62915>>}, pitch : {F(0 - 1000), <<16457, 4048>>},
     deltaTime : {F(2), F(10)}]

StateSamples ==
    [playerId : {U32(5), <<65535, 1>>}, tick : TickSamples,
     position : [x : PosSamples, y : {F(250), F(0)}, z : {F(350), F(0 - 500)}],
     yaw : {F(9000), <<49353, 62915>>}, pitch : {F(4500)},
     lastProcessedInput : {U32(150), <<40000, 7>>}]

EntitySamples ==
    [entityId : {U32(1), <<65535, 65535>>}, entityType : {0, 1, 255},
     position : [x : PosSamples, y : {F(100)}, z : {F(0 - 500)}],
     velocity : [x : {F(0)}, y : {F(7), <<32768, 0>>}, z : {F(0 - 3)}],
     yaw : {F(0), F(18000)}, pitch : {F(0), <<49353, 62915>>}]

CodecWriteHeader ==
    /\ cx.op = "idle"
    /\ \E h \in HeaderSamples :
         cx' = [op |-> "wrote", kind |-> "header", val |-> h,
                buf |-> writeHeader(EmptyBuffer, h)]
    /\ UNCHANGED <<host, client, net, obs, hx, ix, mx>>

CodecWritePlayerInput ==
    /\ cx.op = "idle"
    /\ \E x \in InputSamples :
         cx' = [op |-> "wrote", kind |-> "input", val |-> x,
                buf |-> writePlayerInput(EmptyBuffer, x)]
    /\ UNCHANGED <<host, client, net, obs, hx, ix, mx>>

CodecWritePlayerState ==
    /\ cx.op = "idle"
    /\ \E x \in StateSamples :
         cx' = [op |-> "wrote", kind |-> "state", val |-> x,
                buf |-> writePlayerState(EmptyBuffer, x)]
    /\ UNCHANGED <<host, client, net, obs, hx, ix, mx>>

CodecWriteEntityState ==
    /\ cx.op = "idle"
    /\ \E x \in EntitySamples :
         cx' = [op |-> "wrote", kind |-> "entity", val |-> x,
                buf |-> writeEntityState(EmptyBuffer, x)]
    /\ UNCHANGED <<host, client, net, obs, hx, ix, mx>>

\* the value read back, and the buffer after the read
CodecReadBack(kind, buf) ==
    CASE kind = "header" -> readHeader(buf)
      [] kind = "input"  -> readPlayerInput(buf)
      [] kind = "state"  -> readPlayerState(buf)
      [] kind = "entity" -> readEntityState(buf)

CodecRead ==
    /\ cx.op = "wrote"
    /\ LET r == CodecReadBack(cx.kind, cx.buf)
       IN  cx' = [op |-> "read", kind |-> cx.kind, val |-> cx.val,
                  out |-> r[1], buf |-> r[2]]
    /\ UNCHANGED <<host, client, net, obs, hx, ix, mx>>

\* buffer.reset(): the scenario starts over
CodecReset ==
    /\ cx.op = "read"
    /\ cx' = Idle
    /\ UNCHANGED <<host, client, net, obs, hx, ix, mx>>

InitCodec ==
    /\ host = Idle /\ client = Idle /\ net = Idle /\ obs = Idle
    /\ cx = Idle /\ hx = Idle /\ ix = Idle /\ mx = Idle

NextCodec ==
    \/ CodecWriteHeader
    \/ CodecWritePlayerInput
    \/ CodecWritePlayerState
    \/ CodecWriteEntityState
    \/ CodecRead
    \/ CodecReset

SpecCodec == InitCodec /\ [][NextCodec]_vars

\* C5: the wire codec is a round trip: a header, a PlayerInput, a PlayerState or
\* an EntityState written into an empty PacketBuffer is read back field for field
\* equal, and a header read back has a valid magic.
C5_CodecRoundTrip ==
    cx.op = "read" =>
        /\ cx.out = cx.val
        /\ cx.kind = "header" => isValid(cx.out)

\* a header whose ackBits and sequence have every bit set has been read back
C5_Witness ==
    /\ cx.op = "read" /\ cx.kind = "header"
    /\ cx.val.ackBits = <<65535, 65535>> /\ cx.val.sequence = <<57005, 48879>>
    /\ cx.val.payloadSize = 128 /\ cx.buf.readPos = 23

(***************************************************************************)
(* InputHistory scenario (net_test.cpp:627-663): inputs with strictly      *)
(* increasing sequence numbers are added, past the ring's capacity, and    *)
(* acknowledged up to some k in between.                                   *)
(***************************************************************************)
MaxHistAdds == 67

\* the first sequence number of a run, and the step between two numbers
HistRuns ==
    {[first |-> U32(1), step |-> 1],
     [first |-> <<0, 65500>>, step |-> 2],
     [first |-> <<32767, 65490>>, step |-> 1]}

RECURSIVE U32Plus(_, _)
U32Plus(a, n) == IF n = 0 THEN a ELSE U32Plus(U32Inc(a), n - 1)

HistInput(seq) ==
    [sequence |-> seq, tick |-> U32(10), keys |-> 1, yaw |-> F(0), pitch |-> F(0),
     deltaTime |-> F(2)]

HistPredicted(seq) ==
    [playerId |-> U32(0), tick |-> U32(10), position |-> [x |-> F(0), y |-> F(0), z |-> F(0)],
     yaw |-> F(0), pitch |-> F(0), lastProcessedInput |-> seq]

\* the values of k tried on a history: below, at, between and above what it holds
HistAckChoices(h, next) ==
    {U32(0), next, <<65535, 65535>>}
    \cup (IF h.count = 0 THEN {}
          ELSE LET un == getUnacknowledged(h)
               IN  {un[1].sequence, U32Inc(un[1].sequence),
                    un[(h.count + 1) \div 2].sequence, un[h.count].sequence})

HistAdd ==
    /\ hx.n < MaxHistAdds
    /\ hx' = [hx EXCEPT !.op = "added",
                        !.h = addInput(@, HistInput(hx.next), HistPredicted(hx.next)),
                        !.n = @ + 1,
                        !.next = U32Plus(@, hx.step),
                        !.k = U32(0), !.removed = 0]
    /\ UNCHANGED <<host, client, net, obs, cx, ix, mx>>

\* one acknowledgement anywhere in the run, and one more at its end
HistAck ==
    /\ hx.acks = 0 \/ (hx.acks = 1 /\ hx.n = MaxHistAdds /\ hx.op = "added")
    /\ \E k \in HistAckChoices(hx.h, hx.next) :
         LET h2 == acknowledgeUpTo(hx.h, k)
         IN  hx' = [hx EXCEPT !.op = "acked", !.h = h2, !.k = k, !.acks = @ + 1,
                              !.removed = hx.h.count - h2.count]
    /\ UNCHANGED <<host, client, net, obs, cx, ix, mx>>

InitHistory ==
    /\ host = Idle /\ client = Idle /\ net = Idle /\ obs = Idle
    /\ cx = Idle /\ ix = Idle /\ mx = Idle
    /\ \E r \in HistRuns :
         hx = [op |-> "added", h |-> NewInputHistory, n |-> 0, next |-> r.first,
               step |-> r.step, k |-> U32(0), removed |-> 0, acks |-> 0]

NextHistory == HistAdd \/ HistAck

SpecHistory == InitHistory /\ [][NextHistory]_vars

\* C9: after acknowledgeUpTo(k) on a history of strictly increasing sequence
\* numbers, no stored input has sequence <= k, and getUnacknowledged() is exactly
\* the inputs stored before that have sequence > k, in their order.
C9_AckDropsExactly ==
    [][hx'.op = "acked" =>
         LET before == getUnacknowledged(hx.h)
             after  == getUnacknowledged(hx'.h)
             Kept(x) == U32Gt(x.sequence, hx'.k)
         IN  /\ \A i \in 1..Len(after) : U32Gt(after[i].sequence, hx'.k)
             /\ after = SelectSeq(before, Kept)]_vars

\* a full ring that has overwritten its oldest inputs was acknowledged in part
C9_Witness ==
    /\ hx.op = "acked" /\ hx.n > INPUT_BUFFER_SIZE
    /\ hx.removed > 0 /\ hx.h.count > 0
    /\ hx.removed + hx.h.count = INPUT_BUFFER_SIZE

(***************************************************************************)
(* InterpolationState scenario (net_test.cpp:599-625): one remote player's *)
(* states are added in any order of their ticks, then interpolate() is     *)
(* called at a render tick.                                                *)
(***************************************************************************)
MaxInterpAdds == 3

InterpTicks == {U32(200), U32(203), U32(210)}

InterpTargets == {U32(t) : t \in 199..211}

InterpXs == {F(0), F(1000)}

InterpState(tick, x) ==
    [playerId |-> U32(1), tick |-> tick, position |-> Vec3(x, F(170), F(500)),
     yaw |-> F(0), pitch |-> F(0), lastProcessedInput |-> tick]

\* a buffer that already went once around the ring but for one slot:
\* STATE_BUFFER_SIZE - 1 states of ticks 1, 2, ... added in order
InterpFilled(n) ==
    [states |-> [i \in 1..STATE_BUFFER_SIZE |->
                    IF i <= n THEN InterpState(U32(i), F(0)) ELSE Uninit],
     count |-> n]

InterpAdd ==
    /\ ix.op = "added" /\ ix.adds < MaxInterpAdds
    /\ \E tick \in InterpTicks, x \in InterpXs :
         ix' = [op |-> "added", st |-> addState(ix.st, InterpState(tick, x)),
                adds |-> ix.adds + 1]
    /\ UNCHANGED <<host, client, net, obs, cx, hx, mx>>

InterpInterpolate ==
    /\ ix.op = "added"
    /\ \E target \in InterpTargets :
         ix' = [op |-> "interpolated", st |-> ix.st, adds |-> ix.adds,
                target |-> target, res |-> interpolate(ix.st, target)]
    /\ UNCHANGED <<host, client, net, obs, cx, hx, mx>>

InitInterp ==
    /\ host = Idle /\ client = Idle /\ net = Idle /\ obs = Idle
    /\ cx = Idle /\ hx = Idle /\ mx = Idle
    /\ \E n \in {0, STATE_BUFFER_SIZE - 1} :
         ix = [op |-> "added", st |-> InterpFilled(n), adds |-> 0]

NextInterp == InterpAdd \/ InterpInterpolate

SpecInterp == InitInterp /\ [][NextInterp]_vars

\* the state of insertion number m (0 for the first ever added), while in the ring
InterpNth(s, m) == s.states[(m % STATE_BUFFER_SIZE) + 1]

\* the insertion numbers m such that states m and m+1 are both in the ring
InterpPairs(s) ==
    {m \in 0..(s.count - 2) : m >= s.count - STATE_BUFFER_SIZE}

Abs(n) == IF n < 0 THEN 0 - n ELSE n

\* o = b + (a - b) * (i / D), up to the rounding of t and of the product
InterpNear(o, b, a, i, D) ==
    Abs((FVal(o) - FVal(b)) * D - (FVal(a) - FVal(b)) * i) * 2 * FScale
        <= D * (Abs(FVal(a) - FVal(b)) + FScale)

\* the result ix.res is the linear interpolation between b and a at b.tick + i
InterpIsLinear(res, b, a, target) ==
    LET i == U32Sub(target, b.tick)[2]
        D == U32Sub(a.tick, b.tick)[2]
    IN  /\ res.ok
        /\ res.out.tick = target
        /\ res.out.playerId = b.playerId
        /\ InterpNear(res.out.position.x, b.position.x, a.position.x, i, D)
        /\ InterpNear(res.out.position.y, b.position.y, a.position.y, i, D)
        /\ InterpNear(res.out.position.z, b.position.z, a.position.z, i, D)

\* states m and m+1 are a pair (before, after) with before.tick < after.tick
\* and before.tick <= target <= after.tick
InterpBrackets(s, m, target) ==
    /\ U32Lt(InterpNth(s, m).tick, InterpNth(s, m + 1).tick)
    /\ U32Le(InterpNth(s, m).tick, target)
    /\ U32Le(target, InterpNth(s, m + 1).tick)

\* C10 as stated: for ANY two consecutively inserted states before, after with
\* before.tick < after.tick and any i in 0..D, interpolate(before.tick + i)
\* succeeds with the linear interpolation of the two.  (Refuted: a state
\* inserted later with a tick <= before.tick + i is picked instead.)
C10_AnyPairOriginal ==
    ix.op = "interpolated" =>
        \A m \in InterpPairs(ix.st) :
            InterpBrackets(ix.st, m, ix.target) =>
                InterpIsLinear(ix.res, InterpNth(ix.st, m), InterpNth(ix.st, m + 1),
                               ix.target)

\* C10 (amended): for two consecutively inserted states before, after with
\* before.tick < after.tick and i in 0..D, provided every state inserted after
\* `after` has a tick > before.tick + i, interpolate(before.tick + i) succeeds and
\* returns before.position + (after.position - before.position) * (i / D), with
\* tick = before.tick + i and playerId = before.playerId.
C10_PairInterpolatesLinearly ==
    ix.op = "interpolated" =>
        \A m \in InterpPairs(ix.st) :
            (/\ InterpBrackets(ix.st, m, ix.target)
             /\ \A l \in (m + 2)..(ix.st.count - 1) :
                    U32Gt(InterpNth(ix.st, l).tick, ix.target))
                => InterpIsLinear(ix.res, InterpNth(ix.st, m), InterpNth(ix.st, m + 1),
                                  ix.target)

\* tick 205, strictly between the states at ticks 200 (x = 0) and 210 (x = 10)
\* that lie across the ring's end and were followed by a newer state, was
\* interpolated to x = 5
C10_Witness ==
    /\ ix.op = "interpolated" /\ ix.target = U32(205) /\ ix.res.ok
    /\ ix.st.count = STATE_BUFFER_SIZE + 2
    /\ InterpNth(ix.st, STATE_BUFFER_SIZE - 1).tick = U32(200)
    /\ InterpNth(ix.st, STATE_BUFFER_SIZE - 1).position.x = F(0)
    /\ InterpNth(ix.st, STATE_BUFFER_SIZE).tick = U32(210)
    /\ InterpNth(ix.st, STATE_BUFFER_SIZE).position.x = F(1000)
    /\ InterpNth(ix.st, STATE_BUFFER_SIZE + 1).tick = U32(210)
    /\ ix.res.out.position.x = F(500)

(***************************************************************************)
(* Movement scenario: the host and the client apply the same inputs, of    *)
(* strictly increasing sequence numbers, to the same starting state.       *)
(***************************************************************************)
MaxMoves == 2

\* PlayerState at spawn (net_host.hpp:239-243, net_client.hpp:318-322)
SpawnState(playerId, tick) ==
    [playerId |-> playerId, tick |-> tick, position |-> Vec3(F(0), F(170), F(500)),
     yaw |-> F(0 - 9000), pitch |-> F(0), lastProcessedInput |-> U32(0)]

MoveStarts ==
    {SpawnState(U32(1), U32(0)),
     [SpawnState(U32(1), U32(0)) EXCEPT !.position = Vec3(F(0 - 300), F(50), F(0 - 500)),
                                         !.yaw = F(4500)]}

MoveInputs(seq) ==
    {[sequence |-> seq, tick |-> U32(7), keys |-> k, yaw |-> y,
      pitch |-> (IF k >= 16 THEN F(1000) ELSE F(0)), deltaTime |-> d] :
        k \in {1, 2, 4, 8, 16, 32, 9}, y \in {F(0), F(4500), F(0 - 9000)},
        d \in {F(10), F(2)}}

MoveApply ==
    /\ mx.n < MaxMoves
    /\ \E input \in MoveInputs(U32Inc(mx.seq)) :
         mx' = [op |-> "moved",
                hostPlayers |-> applyInput(mx.hostPlayers, mx.id, input, U32(7)),
                clientState |-> applyInputToState(mx.clientState, input),
                start |-> mx.start, id |-> mx.id, seq |-> input.sequence,
                n |-> mx.n + 1]
    /\ UNCHANGED <<host, client, net, obs, cx, hx, ix>>

InitMove ==
    /\ host = Idle /\ client = Idle /\ net = Idle /\ obs = Idle
    /\ cx = Idle /\ hx = Idle /\ ix = Idle
    /\ \E s \in MoveStarts :
         mx = [op |-> "start", hostPlayers |-> (s.playerId :> s), clientState |-> s,
               start |-> s, id |-> s.playerId, seq |-> U32(0), n |-> 0]

NextMove == MoveApply

SpecMove == InitMove /\ [][NextMove]_vars

\* C7: applying the same inputs to the same starting state, Host::applyInput and
\* Client::applyInputToState compute the same position, yaw and pitch.
C7_SameTransformer ==
    mx.op = "moved" =>
        /\ mx.hostPlayers[mx.id].position = mx.clientState.position
        /\ mx.hostPlayers[mx.id].yaw = mx.clientState.yaw
        /\ mx.hostPlayers[mx.id].pitch = mx.clientState.pitch

\* two inputs were applied on both sides and moved the player on every axis
C7_Witness ==
    /\ mx.op = "moved" /\ mx.n = 2
    /\ mx.clientState.position.x # mx.start.position.x
    /\ mx.clientState.position.y # mx.start.position.y
    /\ mx.clientState.position.z # mx.start.position.z
    /\ mx.clientState.yaw # mx.start.yaw

(***************************************************************************)
(* The session: one Host and one Client over a datagram network.  A        *)
(* datagram sent stays deliverable: it may be delivered never (lost), once,*)
(* several times (duplicated) and in any order.  Each datagram carries,    *)
(* beside its bytes, what its sender encoded into it (`sent`, not on the   *)
(* wire).  net.left counts down what a run may still do.                   *)
(***************************************************************************)
MaxTick == 1
MaxInputs == 2
MaxHostRecv == 2
MaxClientRecv == 2
MaxUpdates == 1
MaxOrderedTick == 3
MaxOrderedRecv == 3
MaxNoisyRecv == 1
MaxClock == 1

ClientAddress == "client:50000"

\* values an uninitialized uint32_t or float may hold
Indeterminate == {U32(0), <<52428, 52428>>}

\* the W key held, looking along +x, for a tenth of a second
ForwardInput ==
    [sequence |-> U32(0), tick |-> U32(0), keys |-> 1, yaw |-> F(0), pitch |-> F(0),
     deltaTime |-> F(10)]

RawInputs ==
    {ForwardInput,
     [sequence |-> U32(0), tick |-> U32(0), keys |-> 24, yaw |-> F(4500), pitch |-> F(1000),
      deltaTime |-> F(2)]}

\* a datagram as it arrives: intact (0), or with byte k of its magic changed
\* (1..4), or cut to its first four bytes with the last of them changed (5)
CleanForms == {0}

NoisyForms == 0..5

Wire(data, form) ==
    IF form = 0 THEN data
    ELSE IF form = 5 THEN [SubSeq(data, 1, 4) EXCEPT ![4] = (@ + 1) % 256]
    ELSE [data EXCEPT ![form] = (@ + 32) % 256]

\* the sequence numbers applied so far, per connection, with those of a call
AppliedWith(applied) ==
    [id \in DOMAIN obs.applied \cup DOMAIN applied |->
       (IF id \in DOMAIN obs.applied THEN obs.applied[id] ELSE <<>>)
       \o (IF id \in DOMAIN applied THEN applied[id] ELSE <<>>)]

\* the players of h in the order given, those of the order that exist
InOrder(h, order) ==
    LET known(id) == id \in DOMAIN h.players
    IN  [i \in 1..Len(SelectSeq(order, known)) |-> h.players[SelectSeq(order, known)[i]]]

\* the datagrams a host handler sent, with what was encoded into them
HostOut(h, out, order) ==
    {[to |-> m.to, data |-> m.data, sent |-> InOrder(h, order)] : m \in out}

\* the datagrams a client handler sent, with what was encoded into them
ClientOut(y) ==
    {[to |-> m.to, from |-> m.from, data |-> m.data, sent |-> y.encoded] : m \in y.out}

\* Host::start
HostStart ==
    /\ ~host.running
    /\ host' = [host EXCEPT !.running = TRUE, !.currentTick = U32(0),
                             !.startTime = net.clock]
    /\ obs' = [op |-> "call", applied |-> obs.applied]
    /\ UNCHANGED <<client, net, cx, hx, ix, mx>>

HostGetLocalPlayer ==
    /\ U32(0) \notin DOMAIN host.players
    /\ host' = getLocalPlayer(host)
    /\ obs' = [op |-> "call", applied |-> obs.applied]
    /\ UNCHANGED <<client, net, cx, hx, ix, mx>>

\* the state after the host received datagram m in the given form; x is
\* what receivePackets made of it
HostReceived(m, form, x, order) ==
    /\ host' = x.h
    /\ net' = [net EXCEPT !.toClient = @ \cup HostOut(x.h, x.out, order),
                          !.left.hostRecvs = IF form = 0 THEN @ - 1 ELSE @,
                          !.left.noisyRecvs = IF form = 0 THEN @ ELSE @ - 1]
    /\ obs' = [op |-> "receive", by |-> "host", intact |-> form = 0,
               datagram |-> Wire(m.data, form), dispatched |-> x.dispatched,
               type |-> x.header.type, handler |-> x.handler, decoded |-> x.decoded,
               playerCount |-> 0, sent |-> m.sent, applied |-> obs.applied]

HostReceiveAs(forms) ==
    /\ host.running
    /\ \E m \in net.toHost, form \in forms,
          order \in Orders(DOMAIN host.players \cup {host.nextPlayerId}) :
         /\ IF form = 0 THEN net.left.hostRecvs > 0 ELSE net.left.noisyRecvs > 0
         /\ HostReceived(m, form,
                         HostReceivePacket(HostCall(host), Wire(m.data, form), m.from,
                                           net.clock - host.startTime, order),
                         order)
    /\ UNCHANGED <<client, cx, hx, ix, mx>>

\* the state after processTick made x of the host
HostTicked(x) ==
    /\ host' = x.h
    /\ net' = [net EXCEPT !.left.ticks = @ - 1]
    /\ obs' = [op |-> "call", applied |-> AppliedWith(x.applied)]

HostProcessTick ==
    /\ host.running
    /\ net.left.ticks > 0
    /\ HostTicked(processTick(HostCall(host)))
    /\ UNCHANGED <<client, cx, hx, ix, mx>>

\* the state after sendStateUpdates made x of the host
HostUpdated(x, order) ==
    /\ host' = x.h
    /\ net' = [net EXCEPT !.toClient = @ \cup HostOut(x.h, x.out, order),
                          !.left.updates = @ - 1]
    /\ obs' = [op |-> "call", applied |-> obs.applied]

HostSendStateUpdates ==
    /\ host.running
    /\ net.left.updates > 0
    /\ \E order \in Orders(DOMAIN host.players) :
         HostUpdated(sendStateUpdates(HostCall(host), order), order)
    /\ UNCHANGED <<client, cx, hx, ix, mx>>

\* the state after connect made y of the client
ClientConnected(y) ==
    /\ client' = y.c
    /\ net' = [net EXCEPT !.toHost = @ \cup ClientOut(y)]
    /\ obs' = [op |-> "call", applied |-> obs.applied]

ClientConnect ==
    /\ client.state = "DISCONNECTED"
    /\ ClientConnected(connect(ClientCall(client), net.clock))
    /\ UNCHANGED <<host, cx, hx, ix, mx>>

\* the state after the client received datagram m in the given form; y is
\* what receivePackets made of it
ClientReceived(m, form, y) ==
    /\ client' = y.c
    /\ net' = [net EXCEPT !.toHost = @ \cup ClientOut(y),
                          !.left.clientRecvs = IF form = 0 THEN @ - 1 ELSE @,
                          !.left.noisyRecvs = IF form = 0 THEN @ ELSE @ - 1]
    /\ obs' = [op |-> "receive", by |-> "client", intact |-> form = 0,
               datagram |-> Wire(m.data, form), dispatched |-> y.dispatched,
               type |-> y.header.type, handler |-> y.handler, decoded |-> y.decoded,
               playerCount |-> y.playerCount, sent |-> m.sent, applied |-> obs.applied]

\* Client::update returns at once while DISCONNECTED: nothing is received then
ClientReceiveAs(forms) ==
    /\ client.state # "DISCONNECTED"
    /\ \E m \in net.toClient, form \in forms :
         /\ m.to = client.address
         /\ IF form = 0 THEN net.left.clientRecvs > 0 ELSE net.left.noisyRecvs > 0
         /\ ClientReceived(m, form,
                           ClientReceivePacket(ClientCall(client), Wire(m.data, form),
                                               net.clock - client.startTime))
    /\ UNCHANGED <<host, cx, hx, ix, mx>>

\* the state after sendInput(raw) made y of the client
ClientSentInput(raw, y) ==
    /\ client' = y.c
    /\ net' = [net EXCEPT !.toHost = @ \cup ClientOut(y), !.left.inputs = @ - 1]
    /\ obs' = [op |-> "call", applied |-> obs.applied]

ClientSendInputOf(raws) ==
    /\ client.state = "CONNECTED"
    /\ net.left.inputs > 0
    /\ \E raw \in raws : ClientSentInput(raw, sendInput(ClientCall(client), raw))
    /\ UNCHANGED <<host, cx, hx, ix, mx>>

\* time passes
Advance ==
    /\ net.clock < MaxClock
    /\ net' = [net EXCEPT !.clock = @ + 1]
    /\ obs' = [op |-> "call", applied |-> obs.applied]
    /\ UNCHANGED <<host, client, cx, hx, ix, mx>>

\* what a run may do when every datagram arrives as it was sent
Budget ==
    [hostRecvs |-> MaxHostRecv, clientRecvs |-> MaxClientRecv, noisyRecvs |-> 0,
     updates |-> MaxUpdates, ticks |-> MaxTick, inputs |-> MaxInputs]

\* what a run may do when datagrams may arrive changed
NoisyBudget ==
    [hostRecvs |-> MaxNoisyRecv, clientRecvs |-> MaxNoisyRecv, noisyRecvs |-> MaxNoisyRecv,
     updates |-> MaxNoisyRecv, ticks |-> 0, inputs |-> MaxNoisyRecv]

InitWith(left) ==
    /\ host = NewHost
    /\ \E junk \in Indeterminate : client = NewClient(ClientAddress, junk)
    /\ net = [toHost |-> {}, toClient |-> {}, clock |-> 0, left |-> left]
    /\ obs = [op |-> "init", applied |-> <<>>]
    /\ cx = Idle /\ hx = Idle /\ ix = Idle /\ mx = Idle

Init == InitWith(Budget)

\* a datagram is received as it was sent
HostReceive == HostReceiveAs(CleanForms)

ClientReceive == ClientReceiveAs(CleanForms)

ClientSendInput == ClientSendInputOf(RawInputs)

\* the session with every datagram delivered intact, within one clock second
Next ==
    \/ HostStart
    \/ HostGetLocalPlayer
    \/ HostReceive
    \/ HostProcessTick
    \/ HostSendStateUpdates
    \/ ClientConnect
    \/ ClientReceive
    \/ ClientSendInput

Spec == Init /\ [][Next]_vars

\* what a run may do to have the host apply two inputs of the client
OrderedBudget ==
    [hostRecvs |-> MaxOrderedRecv, clientRecvs |-> MaxClientRecv, noisyRecvs |-> 0,
     updates |-> MaxUpdates, ticks |-> MaxOrderedTick, inputs |-> MaxInputs]

InitOrdered == InitWith(OrderedBudget)

\* the player keeps walking forward
ClientSendForward == ClientSendInputOf({ForwardInput})

NextOrdered ==
    \/ HostStart
    \/ HostReceive
    \/ HostProcessTick
    \/ HostSendStateUpdates
    \/ ClientConnect
    \/ ClientReceive
    \/ ClientSendForward

SpecOrdered == InitOrdered /\ [][NextOrdered]_vars

InitNoisy == InitWith(NoisyBudget)

\* a datagram is received as it was sent or changed on the way
HostReceiveNoisy == HostReceiveAs(NoisyForms)

ClientReceiveNoisy == ClientReceiveAs(NoisyForms)

\* the session over a network that may change datagrams, while time passes
NextNoisy ==
    \/ HostStart
    \/ HostReceiveNoisy
    \/ HostSendStateUpdates
    \/ ClientConnect
    \/ ClientReceiveNoisy
    \/ ClientSendInput
    \/ Advance

SpecNoisy == InitNoisy /\ [][NextNoisy]_vars

(***************************************************************************)
(* Properties of the session.                                              *)
(***************************************************************************)
\* the step received a datagram of at least 4 bytes whose first four bytes
\* are not 'P','U','L','S'
BadMagicReceived(o) ==
    /\ o.op = "receive"
    /\ Len(o.datagram) >= 4
    /\ SubSeq(o.datagram, 1, 4) # Magic

\* C1: receiving a datagram of at least 4 bytes whose first four bytes are
\* not 'P','U','L','S', on the Host or on the Client, leaves the Host and the
\* Client objects as they were (connections, players, lastReceiveTime,
\* remoteSequence, ackBits, the client's state), sends nothing, and calls no
\* packet handler.
C1_BadMagicIsNoOp ==
    [][BadMagicReceived(obs') =>
         /\ host' = host
         /\ client' = client
         /\ net'.toHost = net.toHost
         /\ net'.toClient = net.toClient
         /\ ~obs'.dispatched]_vars

\* the client, waiting for its CONNECT_ACCEPT at a time later than its last
\* receive, got the accept with a byte of its magic changed and dropped it
C1_Witness ==
    /\ BadMagicReceived(obs)
    /\ obs.by = "client"
    /\ obs.type = CONNECT_ACCEPT
    /\ ~obs.dispatched
    /\ client.state = "CONNECTING"
    /\ net.clock - client.startTime > client.lastReceiveTime

\* the packets whose sender reserves the header and writes it last
Patched(m) == Len(m.data) >= 5 /\ m.data[5] \in {STATE_UPDATE, WORLD_SNAPSHOT, INPUT}

\* a list of PlayerStates written one after the other
PlayerStateBytes(b, states) ==
    writePlayerStates(b, states, [i \in 1..Len(states) |-> i])

\* the payload bytes the sender of m wrote, from what it encoded
PayloadWritten(m) ==
    CASE m.data[5] = INPUT -> writePlayerInputs(EmptyBuffer, m.sent).data
      [] m.data[5] = STATE_UPDATE ->
           PlayerStateBytes(writeU8(EmptyBuffer, Len(m.sent)), m.sent).data
      [] m.data[5] = WORLD_SNAPSHOT ->
           writeEntityState(writeEntityState(writeEntityState(
               writeU8(PlayerStateBytes(writeU8(EmptyBuffer, Len(m.sent)), m.sent), 3),
               Cubes[1]), Cubes[2]), Cubes[3]).data

\* C2: in every STATE_UPDATE and WORLD_SNAPSHOT datagram of the Host and every
\* INPUT datagram of Client::sendInput, the header is bytes 0..22, the payload
\* bytes the sender wrote follow from byte 23 on, none of them overwritten,
\* and header.payloadSize is the datagram's length less 23.
C2_HeaderIs23Bytes ==
    \A m \in net.toHost \cup net.toClient :
       Patched(m) =>
         /\ Len(m.data) = 23 + Len(PayloadWritten(m))
         /\ SubSeq(m.data, 24, Len(m.data)) = PayloadWritten(m)
         /\ U16Of(m.data, 22) = Len(m.data) - 23

\* C3: when the Host receives an INPUT datagram as the client sent it and
\* handleInput reads it, the PlayerInputs read are the PlayerInputs the
\* client wrote into it, in number, fields and order.
C3_InputsDecodedAsEncoded ==
    (/\ obs.op = "receive" /\ obs.by = "host" /\ obs.intact
     /\ obs.handler = "handleInput")
    => obs.decoded = obs.sent

\* the elements of a sequence
Range(s) == {s[i] : i \in 1..Len(s)}

\* C4: when the Client receives a STATE_UPDATE datagram as the Host sent it,
\* the playerCount and the PlayerStates handleStateUpdate reads are the
\* Host's players at the time the datagram was built.
C4_StatesDecodedAsEncoded ==
    (/\ obs.op = "receive" /\ obs.by = "client" /\ obs.intact
     /\ obs.handler = "handleStateUpdate")
    => /\ obs.playerCount = Len(obs.sent)
       /\ Len(obs.decoded) = Len(obs.sent)
       /\ Range(obs.decoded) = Range(obs.sent)

\* C6: for every connection, whatever INPUT datagrams were delivered, lost,
\* duplicated or reordered, the sequence numbers of the inputs processTick
\* applied to the player's state are strictly increasing.
C6_AppliedStrictlyIncreasing ==
    \A id \in DOMAIN obs.applied :
       \A i, j \in 1..Len(obs.applied[id]) :
          i < j => U32Lt(obs.applied[id][i], obs.applied[id][j])

\* the Host applied two inputs of a connection and holds the later one's
\* sequence number
C6_Witness ==
    \E id \in DOMAIN obs.applied :
       /\ Len(obs.applied[id]) >= 2
       /\ id \in DOMAIN host.connections
       /\ host.connections[id].lastProcessedInput = obs.applied[id][Len(obs.applied[id])]

\* the step is a sendInput of the CONNECTED client
InputSent == client.state = "CONNECTED" /\ client'.inputSequence # client.inputSequence

\* the input got the sequence number inputSequence + 1, and (input, the new
\* localState) was appended to the InputHistory
SequencedAndStored(seqInput) ==
    /\ client'.inputSequence = U32Inc(client.inputSequence)
    /\ seqInput.sequence = client'.inputSequence
    /\ getUnacknowledged(client'.inputHistory)
         = Append(getUnacknowledged(client.inputHistory), seqInput)
    /\ client'.inputHistory.predictedStates[
          ((client'.inputHistory.head + client'.inputHistory.count - 1)
             % INPUT_BUFFER_SIZE) + 1] = client'.localState

\* C8 as stated: sendInput(raw) of a CONNECTED client sets localState to the
\* movement rule applied to the previous localState, gives the input the
\* sequence number inputSequence + 1 and appends (input, predicted state) to
\* the InputHistory.
C8_PredictsByRuleAlone ==
    [][InputSent =>
         \E raw \in RawInputs :
            /\ client'.localState
                 = applyInputToState(client.localState, Sequenced(client, raw))
            /\ SequencedAndStored(Sequenced(client, raw))]_vars

\* C8: sendInput(raw) of a CONNECTED client sets localState to the movement
\* rule applied to the previous localState with the tick then set to
\* serverTick, gives the input the sequence number inputSequence + 1 and
\* appends (input, predicted state) to the InputHistory.
C8_PredictsWithServerTick ==
    [][InputSent =>
         \E raw \in RawInputs :
            /\ client'.localState
                 = [applyInputToState(client.localState, Sequenced(client, raw))
                      EXCEPT !.tick = client.serverTick]
            /\ SequencedAndStored(Sequenced(client, raw))]_vars

\* the client sent two inputs, numbered 1 and 2, after the server's tick had
\* moved on from the tick of its spawn
C8_Witness ==
    /\ client.state = "CONNECTED"
    /\ client.inputSequence = U32(2)
    /\ client.inputHistory.count = 2
    /\ client.localState.tick = client.serverTick
    /\ client.serverTick # U32(0)

(***************************************************************************)
(* The host serving bare endpoints: each peer sends packets of its own     *)
(* making, numbered in sequence, and the application calls start, update   *)
(* and stop while time passes.  A datagram of a peer is in flight until an  *)
(* update receives it, if one ever does; an endpoint opens with a          *)
(* CONNECT_REQUEST; what the host sends is kept for the step it is sent in *)
(* only, no endpoint reading it.  obs keeps, of the last step, the call,   *)
(* its                                                                      *)
(* argument, the datagrams it took and sent and the callbacks it called,   *)
(* and, per connection, the sequence numbers received on it so far.        *)
(***************************************************************************)
MaxPeers == 2
MaxServeStarts == 2
MaxPeerSends == 3
MaxServeUpdates == 3
MaxBatch == 1
MaxElapses == 2
MaxTickingUpdates == 3

PeerAddress(k) == "peer:" \o ToString(k)

Peers == {PeerAddress(k) : k \in 1..MaxPeers}

\* the packet types an endpoint sends to the host
PeerTypes == {CONNECT_REQUEST, DISCONNECT, HEARTBEAT, INPUT, ACK}

\* the deltaTime arguments of update: none, half a tick, a tick, two and a
\* half ticks, a snapshot interval
DeltaTimes == {0, 1, TICK_INTERVAL, 2 * TICK_INTERVAL + 1, SNAPSHOT_INTERVAL}

\* by how much the clock is read to have advanced
Elapses == {1, CONNECTION_TIMEOUT}

\* the packet of the given type and sequence number an endpoint makes: a
\* header, and for INPUT a payload of no inputs
PeerPacket(type, sequence) ==
    IF type = INPUT
    THEN PatchHeader(writeU8(Reserve(EmptyBuffer, 22), 0), EmptyBuffer.writePos,
                     [NewHeader EXCEPT !.type = type, !.sequence = sequence])
    ELSE HeaderOnly([NewHeader EXCEPT !.type = type, !.sequence = sequence])

\* the sequences of at most n of the datagrams msgs
Batches(msgs, n) == UNION {[1..k -> msgs] : k \in 0..n}

\* what obs keeps of a step; x is what the call made of the host
Served(op, deltaTime, batch, x) ==
    [op |-> op, deltaTime |-> deltaTime, batch |-> batch, out |-> x.out,
     events |-> x.events, ticks |-> x.ticks,
     heard |-> [id \in DOMAIN x.heard \cap DOMAIN x.h.connections |-> x.heard[id]]]

\* the call record of the host with what was received so far
Serving == [HostCall(host) EXCEPT !.heard = obs.heard]

ServeStart ==
    /\ ~host.running
    /\ net.left.starts > 0
    /\ host' = start(host, net.clock)
    /\ net' = [net EXCEPT !.left.starts = @ - 1]
    /\ obs' = Served("start", 0, <<>>, Serving)
    /\ UNCHANGED <<client, cx, hx, ix, mx>>

\* the state after stop made x of the host
ServeStopped(x) ==
    /\ host' = x.h
    /\ obs' = Served("stop", 0, <<>>, x)
    /\ UNCHANGED net

ServeStop ==
    /\ host.running
    /\ ServeStopped(stop(Serving))
    /\ UNCHANGED <<client, cx, hx, ix, mx>>

\* the state after update(deltaTime) made x of the host
ServeUpdated(deltaTime, batch, order, x) ==
    /\ host' = x.h
    /\ net' = [net EXCEPT !.toHost = @ \ {batch[i] : i \in DOMAIN batch},
                          !.left.updates = @ - 1]
    /\ obs' = Served("update", deltaTime, batch, x)

\* update returns at once unless the host runs
ServeUpdateBy(deltaTimes) ==
    /\ host.running
    /\ net.left.updates > 0
    /\ \E deltaTime \in deltaTimes, batch \in Batches(net.toHost, MaxBatch),
          order \in SampleOrders(host.nextPlayerId[2] + MaxBatch) :
         ServeUpdated(deltaTime, batch, order,
                      HostUpdate(Serving, deltaTime, net.clock - host.startTime, batch,
                                 order))
    /\ UNCHANGED <<client, cx, hx, ix, mx>>

\* an endpoint sends its next packet to the socket the host has bound
PeerSend ==
    /\ host.running
    /\ net.left.sends > 0
    /\ \E addr \in Peers, type \in PeerTypes :
         /\ net.peers[addr] = U32(0) => type = CONNECT_REQUEST
         /\ net' = [net EXCEPT
                     !.toHost = @ \cup
                        {[to |-> HostAddress, from |-> addr, sent |-> <<>>,
                          data |-> Datagram(PeerPacket(type, U32Inc(net.peers[addr])))]},
                     !.peers[addr] = U32Inc(@),
                     !.left.sends = @ - 1]
    /\ obs' = Served("send", 0, <<>>, Serving)
    /\ UNCHANGED <<host, client, cx, hx, ix, mx>>

Elapse ==
    /\ net.left.elapses > 0
    /\ \E d \in Elapses : net' = [net EXCEPT !.clock = @ + d, !.left.elapses = @ - 1]
    /\ obs' = Served("elapse", 0, <<>>, Serving)
    /\ UNCHANGED <<host, client, cx, hx, ix, mx>>

ServeBudget ==
    [starts |-> 1, sends |-> MaxPeerSends, updates |-> MaxServeUpdates,
     elapses |-> MaxElapses]

InitServeWith(left) ==
    /\ host = NewHost
    /\ client = NewClient(ClientAddress, U32(0))
    /\ net = [toHost |-> {}, toClient |-> {}, clock |-> 0, left |-> left,
              peers |-> [addr \in Peers |-> U32(0)]]
    /\ obs = Served("init", 0, <<>>, HostCall(NewHost))
    /\ cx = Idle /\ hx = Idle /\ ix = Idle /\ mx = Idle

InitServe == InitServeWith(ServeBudget)

\* update is called once per snapshot interval
ServeUpdate == ServeUpdateBy({SNAPSHOT_INTERVAL})

NextServe ==
    \/ ServeStart
    \/ ServeUpdate
    \/ PeerSend
    \/ Elapse

SpecServe == InitServe /\ [][NextServe]_vars

\* what a run may do to have the host tick, stop and start again
TickingBudget ==
    [starts |-> MaxServeStarts, sends |-> 1, updates |-> MaxTickingUpdates, elapses |-> 0]

InitTicking == InitServeWith(TickingBudget)

\* update is called with any of the sampled frame times
TickingUpdate == ServeUpdateBy(DeltaTimes)

\* the host run, stopped and restarted by the application
NextTicking ==
    \/ ServeStart
    \/ ServeStop
    \/ TickingUpdate
    \/ PeerSend

SpecTicking == InitTicking /\ [][NextTicking]_vars

(***************************************************************************)
(* The client against an endpoint that plays the server: the endpoint      *)
(* sends packets of its own making, numbered in sequence, each in flight   *)
(* until an update receives it, and the application calls connect, update, *)
(* sendInput and disconnect, update some time after the call before.  obs  *)
(* keeps, of the last step, the call, the time update read, the datagrams  *)
(* it took and sent, the callbacks it called and the state the client was  *)
(* in before.                                                              *)
(***************************************************************************)
MaxConnects == 2
MaxClientUpdates == 3
MaxServerSends == 2

\* the packet types the endpoint sends to the client
ServerTypes == {CONNECT_ACCEPT, CONNECT_REJECT, DISCONNECT, HEARTBEAT}

\* by how much getTime() has advanced when update reads it
ClientElapses == {0, 1, TimeUnitsPerSecond, CONNECTION_TIMEOUT}

\* the packet of the given type and sequence number the endpoint makes: a
\* header, and for CONNECT_ACCEPT the player id 1 and the tick 0
ServerPacket(type, sequence) ==
    IF type = CONNECT_ACCEPT
    THEN writeU32(writeU32(HeaderOnly([NewHeader EXCEPT !.type = type,
                                                        !.sequence = sequence]),
                           U32(1)), U32(0))
    ELSE HeaderOnly([NewHeader EXCEPT !.type = type, !.sequence = sequence])

\* the packet types of the datagrams of a batch
BatchTypes(batch) == {readHeader(Received(batch[i].data))[1].type : i \in DOMAIN batch}

\* what obs keeps of a step; y is what the call made of the client
Called(op, now, batch, y) ==
    [op |-> op, batch |-> batch, types |-> BatchTypes(batch), out |-> y.out,
     events |-> y.events, before |-> client.state, now |-> now]

\* the state after a call made y of the client
ClientCalled(op, now, batch, y) ==
    /\ client' = y.c
    /\ obs' = Called(op, now, batch, y)

CallConnect ==
    /\ net.left.connects > 0
    /\ ClientCalled("connect", 0, <<>>, connect(ClientCall(client), net.clock))
    /\ net' = [net EXCEPT !.left.connects = @ - 1]
    /\ UNCHANGED <<host, cx, hx, ix, mx>>

\* update returns at once while DISCONNECTED
CallUpdate ==
    /\ client.state # "DISCONNECTED"
    /\ net.left.updates > 0
    /\ \E batch \in Batches(net.toClient, MaxBatch), elapsed \in ClientElapses :
         /\ ClientCalled("update", net.clock + elapsed - client.startTime, batch,
                         ClientUpdate(ClientCall(client),
                                      net.clock + elapsed - client.startTime, batch))
         /\ net' = [net EXCEPT !.toClient = @ \ {batch[i] : i \in DOMAIN batch},
                               !.clock = @ + elapsed,
                               !.left.updates = @ - 1]
    /\ UNCHANGED <<host, cx, hx, ix, mx>>

\* sendInput returns at once unless CONNECTED
CallSendInput ==
    /\ client.state = "CONNECTED"
    /\ net.left.inputs > 0
    /\ ClientCalled("sendInput", 0, <<>>, sendInput(ClientCall(client), ForwardInput))
    /\ net' = [net EXCEPT !.left.inputs = @ - 1]
    /\ UNCHANGED <<host, cx, hx, ix, mx>>

CallDisconnect ==
    /\ net.left.disconnects > 0
    /\ ClientCalled("disconnect", 0, <<>>, disconnect(ClientCall(client)))
    /\ net' = [net EXCEPT !.left.disconnects = @ - 1]
    /\ UNCHANGED <<host, cx, hx, ix, mx>>

\* the endpoint sends its next packet to the socket the client has bound
ServerSend ==
    /\ client.state # "DISCONNECTED"
    /\ net.left.sends > 0
    /\ \E type \in ServerTypes :
         net' = [net EXCEPT
                   !.toClient = @ \cup
                      {[to |-> client.address, sent |-> <<>>,
                        data |-> Datagram(ServerPacket(type, U32Inc(net.serverSequence)))]},
                   !.serverSequence = U32Inc(@),
                   !.left.sends = @ - 1]
    /\ obs' = Called("send", 0, <<>>, ClientCall(client))
    /\ UNCHANGED <<host, client, cx, hx, ix, mx>>

ClientBudget ==
    [connects |-> MaxConnects, updates |-> MaxClientUpdates, sends |-> MaxServerSends,
     inputs |-> 1, disconnects |-> 1]

InitClient ==
    /\ host = NewHost
    /\ \E junk \in Indeterminate : client = NewClient(ClientAddress, junk)
    /\ net = [toHost |-> {}, toClient |-> {}, clock |-> 0, left |-> ClientBudget,
              serverSequence |-> U32(0)]
    /\ obs = [op |-> "init", batch |-> <<>>, types |-> {}, out |-> {}, events |-> <<>>,
              before |-> "DISCONNECTED", now |-> 0]
    /\ cx = Idle /\ hx = Idle /\ ix = Idle /\ mx = Idle

NextClient ==
    \/ CallConnect
    \/ CallUpdate
    \/ CallSendInput
    \/ CallDisconnect
    \/ ServerSend

SpecClient == InitClient /\ [][NextClient]_vars

(***************************************************************************)
(* The handshake: one Host, the Client and one more endpoint, over a       *)
(* network that delivers: each update receives every datagram in flight to *)
(* it, in some order; what the host sends to the other endpoint is read by *)
(* no one.  Both sides keep calling update, some time after the call       *)
(* before.  obs keeps the last call, the id the host allocated for the     *)
(* client's endpoint and the arguments onConnected was called with.        *)
(***************************************************************************)
MaxShakeElapses == 1
MaxShakeTick == 1

\* by how much getTime() has advanced when update reads it, while the run
\* may still let time pass
ShakeElapses(left) ==
    IF left > 0 THEN {0, TimeUnitsPerSecond + 1, CONNECTION_TIMEOUT + 1} ELSE {0}

\* the deltaTime arguments of update, while the run may still tick
ShakeDeltaTimes(h) == IF U32Lt(h.currentTick, U32(MaxShakeTick)) THEN {0, TICK_INTERVAL} ELSE {0}

\* the datagrams in flight to an address
InFlightTo(address) == {m \in net.toClient : m.to = address}

\* the ids the host allocated in a call for the endpoint with this address
AllocatedFor(x, address) ==
    {x.events[i].playerId : i \in {j \in DOMAIN x.events :
        /\ x.events[j].callback = "onPlayerConnected"
        /\ x.events[j].playerId \in DOMAIN x.h.connections
        /\ x.h.connections[x.events[j].playerId].address = address}}

\* the arguments onConnected was called with in a call
ConnectedAs(y) ==
    SelectSeq(y.events, LAMBDA ev : ev.callback = "onConnected")

ShakeStart ==
    /\ ~host.running
    /\ host' = start(host, net.clock)
    /\ obs' = [obs EXCEPT !.op = "start"]
    /\ UNCHANGED <<client, net, cx, hx, ix, mx>>

ShakeGetLocalPlayer ==
    /\ U32(0) \notin DOMAIN host.players
    /\ host' = getLocalPlayer(host)
    /\ obs' = [obs EXCEPT !.op = "getLocalPlayer"]
    /\ UNCHANGED <<client, net, cx, hx, ix, mx>>

\* the state after update made x of the host
ShakeHostUpdated(elapsed, order, x) ==
    /\ host' = x.h
    /\ net' = [net EXCEPT !.toHost = {},
                          !.toClient = @ \cup {m \in HostOut(x.h, x.out, order) :
                                                 m.to = client.address},
                          !.clock = @ + elapsed,
                          !.left.elapses = IF elapsed > 0 THEN @ - 1 ELSE @]
    /\ obs' = [obs EXCEPT !.op = "hostUpdate",
                          !.allocated = IF AllocatedFor(x, ClientAddress) = {} THEN @
                                        ELSE CHOOSE id \in AllocatedFor(x, ClientAddress) : TRUE]

ShakeHostUpdate ==
    /\ host.running
    /\ \E elapsed \in ShakeElapses(net.left.elapses), deltaTime \in ShakeDeltaTimes(host),
          batch \in Orders(net.toHost),
          order \in SampleOrders(host.nextPlayerId[2] + Cardinality(net.toHost)) :
         ShakeHostUpdated(elapsed, order,
                          HostUpdate(HostCall(host), deltaTime,
                                     net.clock + elapsed - host.startTime, batch, order))
    /\ UNCHANGED <<client, cx, hx, ix, mx>>

ShakeConnect ==
    /\ client.state = "DISCONNECTED"
    /\ net.left.connects > 0
    /\ client' = connect(ClientCall(client), net.clock).c
    /\ net' = [net EXCEPT !.toHost = @ \cup ClientOut(connect(ClientCall(client), net.clock)),
                          !.left.connects = @ - 1]
    /\ obs' = [obs EXCEPT !.op = "connect"]
    /\ UNCHANGED <<host, cx, hx, ix, mx>>

\* the state after update made y of the client
ShakeClientUpdated(elapsed, y) ==
    /\ client' = y.c
    /\ net' = [net EXCEPT !.toHost = @ \cup ClientOut(y),
                          !.toClient = @ \ InFlightTo(client.address),
                          !.clock = @ + elapsed,
                          !.left.elapses = IF elapsed > 0 THEN @ - 1 ELSE @]
    /\ obs' = [obs EXCEPT !.op = "clientUpdate", !.connectedAs = @ \o ConnectedAs(y)]

\* update returns at once while DISCONNECTED
ShakeClientUpdate ==
    /\ client.state # "DISCONNECTED"
    /\ \E elapsed \in ShakeElapses(net.left.elapses),
          batch \in Orders(InFlightTo(client.address)) :
         ShakeClientUpdated(elapsed,
                            ClientUpdate(ClientCall(client),
                                         net.clock + elapsed - client.startTime, batch))
    /\ UNCHANGED <<host, cx, hx, ix, mx>>

\* the other endpoint asks to connect
ShakePeerConnect ==
    /\ net.left.sends > 0
    /\ net' = [net EXCEPT
                 !.toHost = @ \cup
                    {[to |-> HostAddress, from |-> PeerAddress(1), sent |-> <<>>,
                      data |-> Datagram(PeerPacket(CONNECT_REQUEST, U32(1)))]},
                 !.left.sends = @ - 1]
    /\ obs' = [obs EXCEPT !.op = "send"]
    /\ UNCHANGED <<host, client, cx, hx, ix, mx>>

InitShake ==
    /\ host = NewHost
    /\ \E junk \in Indeterminate : client = NewClient(ClientAddress, junk)
    /\ net = [toHost |-> {}, toClient |-> {}, clock |-> 0,
              left |-> [elapses |-> MaxShakeElapses, connects |-> 1, sends |-> 1]]
    /\ obs = [op |-> "init", allocated |-> U32(0), connectedAs |-> <<>>]
    /\ cx = Idle /\ hx = Idle /\ ix = Idle /\ mx = Idle

NextShake ==
    \/ ShakeStart
    \/ ShakeGetLocalPlayer
    \/ ShakeHostUpdate
    \/ ShakeConnect
    \/ ShakeClientUpdate
    \/ ShakePeerConnect

\* ENABLED <<ShakeHostUpdate>>_vars: the host runs and a call of update
\* changes something
HostUpdateEnabled ==
    /\ host.running
    /\ \/ obs.op # "hostUpdate"
       \/ net.left.elapses > 0
       \/ net.toHost # {}
       \/ U32Lt(host.currentTick, U32(MaxShakeTick))
       \/ HostUpdate(HostCall(host), 0, net.clock - host.startTime, <<>>,
                     Ascending(host.nextPlayerId[2])).h # host

\* ENABLED <<ShakeClientUpdate>>_vars: the client is not DISCONNECTED and a
\* call of update changes something
ClientUpdateEnabled ==
    /\ client.state # "DISCONNECTED"
    /\ \/ obs.op # "clientUpdate"
       \/ net.left.elapses > 0
       \/ InFlightTo(client.address) # {}
       \/ ClientUpdate(ClientCall(client), net.clock - client.startTime, <<>>).c # client

\* both sides keep calling update: WF_vars(ShakeHostUpdate) and
\* WF_vars(ShakeClientUpdate), each written out as
\* []<>~ENABLED <<A>>_vars \/ []<><<A>>_vars
KeepUpdating ==
    /\ []<>(~HostUpdateEnabled) \/ []<><<ShakeHostUpdate>>_vars
    /\ []<>(~ClientUpdateEnabled) \/ []<><<ShakeClientUpdate>>_vars

SpecShake == InitShake /\ [][NextShake]_vars /\ KeepUpdating

(***************************************************************************)
(* The host and more endpoints than MAX_PLAYERS: the endpoints ask to      *)
(* connect one after another, each request being handled by an update      *)
(* before the next is sent, and the endpoint that joined last may leave.   *)
(***************************************************************************)
\* how many endpoints ask to connect
MaxJoins == 17

\* how many times an endpoint sends DISCONNECT
MaxLeaves == 2

\* how many times update is called
MaxCapacityUpdates == 20

\* the endpoints that have sent something
Joined == {k \in 1..MaxJoins : net.peers[PeerAddress(k)] # U32(0)}

\* endpoint k sends its next packet, of the given type
EndpointSends(k, type) ==
    [net EXCEPT
       !.toHost = @ \cup
          {[to |-> HostAddress, from |-> PeerAddress(k), sent |-> <<>>,
            data |-> Datagram(PeerPacket(type, U32Inc(net.peers[PeerAddress(k)])))]},
       !.peers[PeerAddress(k)] = U32Inc(@)]

\* the next endpoint sends CONNECT_REQUEST
Join ==
    /\ host.running
    /\ net.toHost = {}
    /\ Cardinality(Joined) < MaxJoins
    /\ net' = EndpointSends(Cardinality(Joined) + 1, CONNECT_REQUEST)
    /\ obs' = Served("send", 0, <<>>, Serving)
    /\ UNCHANGED <<host, client, cx, hx, ix, mx>>

\* the endpoint that joined last sends DISCONNECT
Leave ==
    /\ host.running
    /\ net.toHost = {}
    /\ net.left.leaves > 0
    /\ Joined # {}
    /\ net' = [EndpointSends(Cardinality(Joined), DISCONNECT) EXCEPT !.left.leaves = @ - 1]
    /\ obs' = Served("send", 0, <<>>, Serving)
    /\ UNCHANGED <<host, client, cx, hx, ix, mx>>

\* update is called with no time passed since the last call
CapacityUpdate == ServeUpdateBy({0})

CapacityBudget ==
    [starts |-> 1, sends |-> 0, updates |-> MaxCapacityUpdates, elapses |-> 0,
     leaves |-> MaxLeaves]

InitCapacity ==
    /\ host = NewHost
    /\ client = NewClient(ClientAddress, U32(0))
    /\ net = [toHost |-> {}, toClient |-> {}, clock |-> 0, left |-> CapacityBudget,
              peers |-> [k \in {PeerAddress(j) : j \in 1..MaxJoins} |-> U32(0)]]
    /\ obs = Served("init", 0, <<>>, HostCall(NewHost))
    /\ cx = Idle /\ hx = Idle /\ ix = Idle /\ mx = Idle

NextCapacity ==
    \/ ServeStart
    \/ Join
    \/ Leave
    \/ CapacityUpdate

SpecCapacity == InitCapacity /\ [][NextCapacity]_vars

(***************************************************************************)
(* The host and an endpoint whose datagrams arrive cut short: the first    *)
(* bytes of a packet, fewer than the header has, or a few of the bytes     *)
(* that follow the magic.                                                  *)
(***************************************************************************)
\* how many datagrams the endpoint sends
MaxCutSends == 2

\* how many times update is called
MaxCutUpdates == 2

\* the number of bytes writeHeader writes
HeaderBytes == Len(Datagram(HeaderOnly(NewHeader)))

\* the datagrams shorter than a header made of the bytes of data: its first
\* n bytes, and the first n bytes after its magic for n less than the
\* length of the magic
Cuts(data) ==
    {SubSeq(data, 1, n) : n \in 1..(HeaderBytes - 1)}
    \cup {SubSeq(data, Len(Magic) + 1, Len(Magic) + n) : n \in 1..(Len(Magic) - 1)}

\* the endpoint sends a datagram shorter than a header
PeerSendCut ==
    /\ host.running
    /\ net.left.sends > 0
    /\ \E type \in PeerTypes :
         \E data \in Cuts(Datagram(PeerPacket(type, U32Inc(net.peers[PeerAddress(1)])))) :
            net' = [net EXCEPT
                      !.toHost = @ \cup {[to |-> HostAddress, from |-> PeerAddress(1),
                                          sent |-> <<>>, data |-> data]},
                      !.peers[PeerAddress(1)] = U32Inc(@),
                      !.left.sends = @ - 1]
    /\ obs' = Served("send", 0, <<>>, Serving)
    /\ UNCHANGED <<host, client, cx, hx, ix, mx>>

CutBudget ==
    [starts |-> 1, sends |-> MaxCutSends, updates |-> MaxCutUpdates, elapses |-> 0]

InitCut == InitServeWith(CutBudget)

NextCut ==
    \/ ServeStart
    \/ PeerSendCut
    \/ CapacityUpdate

SpecCut == InitCut /\ [][NextCut]_vars

(***************************************************************************)
(* The host and an endpoint that, once connected, sends INPUT datagrams    *)
(* whose header declares more payload than the datagram carries.           *)
(***************************************************************************)
\* how many such datagrams the endpoint sends
MaxShortSends == 2

\* how many inputs a header declares at most
MaxDeclared == 2

\* how many times update is called
MaxShortUpdates == 3

\* the number of bytes writePlayerInput writes
PlayerInputBytes == Len(Datagram(writePlayerInput(EmptyBuffer, ForwardInput)))

\* the inputs with the sequence numbers 1 .. n
NumberedInputs(n) == [k \in 1..n |-> [ForwardInput EXCEPT !.sequence = U32(k)]]

\* an INPUT packet whose header declares `declared` inputs, written in full
DeclaredInputs(sequence, declared) ==
    writePlayerInputs(
        writeHeader(EmptyBuffer,
                    [NewHeader EXCEPT !.type = INPUT, !.sequence = sequence,
                                      !.payloadSize = declared * PlayerInputBytes]),
        NumberedInputs(declared))

\* the endpoint's datagrams: the header and fewer payload bytes than declared
ShortInputs(sequence) ==
    UNION {{SubSeq(Datagram(DeclaredInputs(sequence, declared)), 1, HeaderBytes + carried) :
              carried \in 0..(declared * PlayerInputBytes - 1)} :
           declared \in 1..MaxDeclared}

\* the connected endpoint sends an INPUT datagram that is too short
PeerSendShortInput ==
    /\ host.running
    /\ net.left.shorts > 0
    /\ findConnection(host, PeerAddress(1)) # {}
    /\ \E data \in ShortInputs(U32Inc(net.peers[PeerAddress(1)])) :
         net' = [net EXCEPT
                   !.toHost = @ \cup {[to |-> HostAddress, from |-> PeerAddress(1),
                                       sent |-> <<>>, data |-> data]},
                   !.peers[PeerAddress(1)] = U32Inc(@),
                   !.left.shorts = @ - 1]
    /\ obs' = Served("send", 0, <<>>, Serving)
    /\ UNCHANGED <<host, client, cx, hx, ix, mx>>

ShortBudget ==
    [starts |-> 1, sends |-> 1, updates |-> MaxShortUpdates, elapses |-> 0,
     shorts |-> MaxShortSends]

InitShort == InitServeWith(ShortBudget)

NextShort ==
    \/ ServeStart
    \/ PeerSend
    \/ PeerSendShortInput
    \/ CapacityUpdate

SpecShort == InitShort /\ [][NextShort]_vars

(***************************************************************************)
(* The client sending input after input, the server endpoint answering     *)
(* now and then with a STATE_UPDATE that acknowledges some of them.        *)
(***************************************************************************)
\* how many times sendInput is called
MaxRedundantInputs == 7

\* how many STATE_UPDATE packets the server endpoint sends
MaxStateSends == 1

\* how many times update is called
MaxRedundantUpdates == 2

\* the STATE_UPDATE of an endpoint that has processed the client's inputs up
\* to lastProcessedInput: the header, one player, the client's
ServerStatePacket(sequence, playerId, lastProcessedInput) ==
    writePlayerState(
        writeU8(HeaderOnly([NewHeader EXCEPT !.type = STATE_UPDATE, !.sequence = sequence]), 1),
        [Spawned(NewPlayerState, playerId) EXCEPT !.lastProcessedInput = lastProcessedInput])

\* the server endpoint sends packet to the socket the client has bound
ServerSent(packet) ==
    [net EXCEPT !.toClient = @ \cup {[to |-> client.address, sent |-> <<>>,
                                      data |-> Datagram(packet)]},
                !.serverSequence = U32Inc(@)]

\* the server endpoint accepts the client
ServerAccept ==
    /\ client.state = "CONNECTING"
    /\ net.left.sends > 0
    /\ net' = [ServerSent(ServerPacket(CONNECT_ACCEPT, U32Inc(net.serverSequence)))
                 EXCEPT !.left.sends = @ - 1]
    /\ obs' = Called("send", 0, <<>>, ClientCall(client))
    /\ UNCHANGED <<host, client, cx, hx, ix, mx>>

\* the server endpoint reports the client's state, having processed some of
\* the inputs the client has sent
ServerSendState ==
    /\ client.state = "CONNECTED"
    /\ net.left.states > 0
    /\ \E k \in 1..client.inputSequence[2] :
         net' = [ServerSent(ServerStatePacket(U32Inc(net.serverSequence), client.playerId,
                                              U32(k)))
                   EXCEPT !.left.states = @ - 1]
    /\ obs' = Called("send", 0, <<>>, ClientCall(client))
    /\ UNCHANGED <<host, client, cx, hx, ix, mx>>

RedundantBudget ==
    [connects |-> 1, updates |-> MaxRedundantUpdates, sends |-> 1,
     inputs |-> MaxRedundantInputs, disconnects |-> 0, states |-> MaxStateSends]

InitRedundant ==
    /\ host = NewHost
    /\ \E junk \in Indeterminate : client = NewClient(ClientAddress, junk)
    /\ net = [toHost |-> {}, toClient |-> {}, clock |-> 0, left |-> RedundantBudget,
              serverSequence |-> U32(0)]
    /\ obs = [op |-> "init", batch |-> <<>>, types |-> {}, out |-> {}, events |-> <<>>,
              before |-> "DISCONNECTED", now |-> 0]
    /\ cx = Idle /\ hx = Idle /\ ix = Idle /\ mx = Idle

NextRedundant ==
    \/ CallConnect
    \/ CallUpdate
    \/ CallSendInput
    \/ ServerAccept
    \/ ServerSendState

SpecRedundant == InitRedundant /\ [][NextRedundant]_vars

(***************************************************************************)
(* The host and connected endpoints whose INPUT packets, one input each,   *)
(* carry sequence numbers in any order, old ones and repeated ones         *)
(* included, between updates that tick and updates that do not.            *)
(***************************************************************************)
\* how many INPUT packets are sent
MaxInputSends == 3

\* the highest sequence number of an input
MaxInputSequence == 3

\* how many times update is called
MaxInputUpdates == 4

\* the INPUT packet with the one input numbered k
InputPacket(sequence, k) ==
    writePlayerInput(
        writeHeader(EmptyBuffer,
                    [NewHeader EXCEPT !.type = INPUT, !.sequence = sequence,
                                      !.payloadSize = PlayerInputBytes]),
        [ForwardInput EXCEPT !.sequence = U32(k)])

\* a connected endpoint sends an input
PeerSendInput ==
    /\ host.running
    /\ net.left.inputs > 0
    /\ \E addr \in Peers, k \in 1..MaxInputSequence :
         /\ findConnection(host, addr) # {}
         /\ net' = [net EXCEPT
                      !.toHost = @ \cup
                         {[to |-> HostAddress, from |-> addr, sent |-> <<>>,
                           data |-> Datagram(InputPacket(U32Inc(net.peers[addr]), k))]},
                      !.peers[addr] = U32Inc(@),
                      !.left.inputs = @ - 1]
    /\ obs' = Served("send", 0, <<>>, Serving)
    /\ UNCHANGED <<host, client, cx, hx, ix, mx>>

\* update is called at once or a tick after the call before
InputsUpdate == ServeUpdateBy({0, TICK_INTERVAL})

InputsBudget ==
    [starts |-> 1, sends |-> 1, updates |-> MaxInputUpdates, elapses |-> 0,
     inputs |-> MaxInputSends]

InitInputs == InitServeWith(InputsBudget)

NextInputs ==
    \/ ServeStart
    \/ PeerSend
    \/ PeerSendInput
    \/ InputsUpdate

SpecInputs == InitInputs /\ [][NextInputs]_vars

(***************************************************************************)
(* updateAcks by itself: a connection of the host and the client, each     *)
(* handed packets with sequence numbers near and far from the ones before. *)
(***************************************************************************)
\* how many packets each side is handed
MaxAckSteps == 3

\* the sequence numbers tried: next to each other, 31, 32 and 33 apart, and
\* the largest
AckSequences ==
    {U32(0), U32(1), U32(2), U32(32), U32(33), U32(34), U32(65), <<65535, 65535>>}

\* the host with one connection, as handleConnectRequest makes it
WithOneConnection ==
    [NewHost EXCEPT
       !.running = TRUE,
       !.nextPlayerId = U32Inc(@),
       !.connections = (NewHost.nextPlayerId :>
                          [NewConnection EXCEPT !.playerId = NewHost.nextPlayerId,
                                                !.address = PeerAddress(1),
                                                !.state = "CONNECTED"]),
       !.players = (NewHost.nextPlayerId :> Spawned(NewPlayerState, NewHost.nextPlayerId))]

\* Host::updateAcks on the connection, for a packet with the sequence number
AcksHost ==
    /\ net.left.host > 0
    /\ \E sequence \in AckSequences, id \in DOMAIN host.connections :
         /\ host' = [host EXCEPT !.connections[id] =
                        HostUpdateAcks(@, [NewHeader EXCEPT !.sequence = sequence])]
         /\ obs' = [op |-> "updateAcks", by |-> "host", id |-> id, sequence |-> sequence]
    /\ net' = [net EXCEPT !.left.host = @ - 1]
    /\ UNCHANGED <<client, cx, hx, ix, mx>>

\* Client::updateAcks, for a packet with the sequence number
AcksClient ==
    /\ net.left.client > 0
    /\ \E sequence \in AckSequences :
         /\ client' = ClientUpdateAcks(client, [NewHeader EXCEPT !.sequence = sequence])
         /\ obs' = [op |-> "updateAcks", by |-> "client", id |-> U32(0),
                    sequence |-> sequence]
    /\ net' = [net EXCEPT !.left.client = @ - 1]
    /\ UNCHANGED <<host, cx, hx, ix, mx>>

InitAcks ==
    /\ host = WithOneConnection
    /\ \E junk \in Indeterminate : client = NewClient(ClientAddress, junk)
    /\ net = [toHost |-> {}, toClient |-> {}, clock |-> 0,
              left |-> [host |-> MaxAckSteps, client |-> MaxAckSteps]]
    /\ obs = [op |-> "init", by |-> "none", id |-> U32(0), sequence |-> U32(0)]
    /\ cx = Idle /\ hx = Idle /\ ix = Idle /\ mx = Idle

NextAcks ==
    \/ AcksHost
    \/ AcksClient

SpecAcks == InitAcks /\ [][NextAcks]_vars

(***************************************************************************)
(* The host called with frame times from none to over two snapshot intervals, *)
(* so that the snapshot accumulator falls behind, while endpoints connect  *)
(* and leave.                                                              *)
(***************************************************************************)
\* how many packets the endpoints send
MaxSnapSends == 2

\* how many times update is called
MaxSnapUpdates == 3

\* the deltaTime arguments: none, less than a snapshot interval, one, more
\* than two
SnapDeltaTimes == {0, SNAPSHOT_INTERVAL - 1, SNAPSHOT_INTERVAL, 2 * SNAPSHOT_INTERVAL + 1}

SnapUpdate == ServeUpdateBy(SnapDeltaTimes)

SnapBudget ==
    [starts |-> 1, sends |-> MaxSnapSends, updates |-> MaxSnapUpdates, elapses |-> 0]

InitSnap == InitServeWith(SnapBudget)

NextSnap ==
    \/ ServeStart
    \/ PeerSend
    \/ SnapUpdate

SpecSnap == InitSnap /\ [][NextSnap]_vars

(***************************************************************************)
(* The host and endpoints that also send what the host has no use for:     *)
(* packets of the types the host itself sends or of no type at all, and    *)
(* DISCONNECT, HEARTBEAT, INPUT and ACK before any CONNECT_REQUEST.        *)
(***************************************************************************)
\* how many packets the endpoints send in the ordinary way
MaxStraySends == 2

\* how many stray packets are sent
MaxStrays == 1

\* how many times update is called
MaxStrayUpdates == 3

\* the types Host::handlePacket has a case for
HostCases == {CONNECT_REQUEST, DISCONNECT, HEARTBEAT, INPUT, ACK}

\* types Host::handlePacket has no case for: 0, that of a packet the host
\* sends, and the greatest byte
OtherTypes == {0, STATE_UPDATE, 255}

\* the packet of a type and sequence number an endpoint makes, an INPUT with
\* one input
StrayPacket(type, sequence) ==
    IF type = INPUT THEN InputPacket(sequence, 1)
    ELSE HeaderOnly([NewHeader EXCEPT !.type = type, !.sequence = sequence])

\* the types a stray packet from addr has: any type without a case, and for
\* an endpoint without a connection also those that need one
StrayTypes(h, addr) ==
    OtherTypes \cup (IF findConnection(h, addr) = {} THEN HostCases \ {CONNECT_REQUEST} ELSE {})

\* an endpoint sends a stray packet
PeerSendStray ==
    /\ host.running
    /\ net.left.strays > 0
    /\ \E addr \in Peers :
         \E type \in StrayTypes(host, addr) :
            net' = [net EXCEPT
                      !.toHost = @ \cup
                         {[to |-> HostAddress, from |-> addr, sent |-> <<>>,
                           data |-> Datagram(StrayPacket(type, U32Inc(net.peers[addr])))]},
                      !.peers[addr] = U32Inc(@),
                      !.left.strays = @ - 1]
    /\ obs' = Served("send", 0, <<>>, Serving)
    /\ UNCHANGED <<host, client, cx, hx, ix, mx>>

StrayBudget ==
    [starts |-> 1, sends |-> MaxStraySends, updates |-> MaxStrayUpdates, elapses |-> 1,
     strays |-> MaxStrays]

InitStray == InitServeWith(StrayBudget)

NextStray ==
    \/ ServeStart
    \/ PeerSend
    \/ PeerSendStray
    \/ CapacityUpdate
    \/ Elapse

SpecStray == InitStray /\ [][NextStray]_vars

(***************************************************************************)
(* The client predicting its inputs while the server endpoint reports the  *)
(* client's own state: a position at some distance from the one the client *)
(* holds when the report is made, and some of the inputs sent so far       *)
(* processed.                                                              *)
(***************************************************************************)
\* how many times sendInput is called
MaxReconcileInputs == 2

\* how many STATE_UPDATE packets the server endpoint sends
MaxReconcileStates == 2

\* how many times update is called
MaxReconcileUpdates == 3

\* how far along x the reported position is from the client's, in 1/FScale:
\* not at all, 0.01, 0.02, 0.99, 1.0
ReportedOffsets == {0, 1, 2, 99, 100}

\* the STATE_UPDATE with the one player state
ReportPacket(sequence, state) ==
    writePlayerState(
        writeU8(HeaderOnly([NewHeader EXCEPT !.type = STATE_UPDATE, !.sequence = sequence]), 1),
        state)

\* the server endpoint reports the client's state
ServerReport ==
    /\ client.state = "CONNECTED"
    /\ net.left.states > 0
    /\ \E k \in 0..client.inputSequence[2], dx \in ReportedOffsets :
         net' = [ServerSent(ReportPacket(
                     U32Inc(net.serverSequence),
                     [client.localState EXCEPT
                        !.position.x = FAdd(@, F(dx)), !.lastProcessedInput = U32(k)]))
                   EXCEPT !.left.states = @ - 1]
    /\ obs' = Called("send", 0, <<>>, ClientCall(client))
    /\ UNCHANGED <<host, client, cx, hx, ix, mx>>

\* update is called with the datagrams that have arrived, no time having
\* passed
ReconcileUpdate ==
    /\ client.state # "DISCONNECTED"
    /\ net.left.updates > 0
    /\ \E batch \in Batches(net.toClient, MaxBatch) :
         /\ ClientCalled("update", net.clock - client.startTime, batch,
                         ClientUpdate(ClientCall(client), net.clock - client.startTime, batch))
         /\ net' = [net EXCEPT !.toClient = @ \ {batch[i] : i \in DOMAIN batch},
                               !.left.updates = @ - 1]
    /\ UNCHANGED <<host, cx, hx, ix, mx>>

ReconcileBudget ==
    [connects |-> 1, updates |-> MaxReconcileUpdates, sends |-> 1,
     inputs |-> MaxReconcileInputs, disconnects |-> 0, states |-> MaxReconcileStates]

InitReconcile ==
    /\ host = NewHost
    /\ \E junk \in Indeterminate : client = NewClient(ClientAddress, junk)
    /\ net = [toHost |-> {}, toClient |-> {}, clock |-> 0, left |-> ReconcileBudget,
              serverSequence |-> U32(0)]
    /\ obs = [op |-> "init", batch |-> <<>>, types |-> {}, out |-> {}, events |-> <<>>,
              before |-> "DISCONNECTED", now |-> 0]
    /\ cx = Idle /\ hx = Idle /\ ix = Idle /\ mx = Idle

NextReconcile ==
    \/ CallConnect
    \/ ReconcileUpdate
    \/ CallSendInput
    \/ ServerAccept
    \/ ServerReport

SpecReconcile == InitReconcile /\ [][NextReconcile]_vars

(***************************************************************************)
(* The client sending an input per frame to the host over a network that   *)
(* loses INPUT packets, never more than four in a row: each packet is      *)
(* either received by the update of the host that follows it, which ticks, *)
(* or lost before that update.  What the host sends to the client arrives  *)
(* at an update of the client.  obs keeps the last step and the sequence   *)
(* numbers the host has applied so far, per connection.                    *)
(***************************************************************************)
\* how many times sendInput is called
MaxFrames == 6

\* how many INPUT packets in a row are lost at most
MaxLostRun == 4

\* the sequence numbers applied so far, per connection, with those of a call
LossyApplied(applied) ==
    [id \in DOMAIN obs.applied \cup DOMAIN applied |->
       (IF id \in DOMAIN obs.applied THEN obs.applied[id] ELSE <<>>)
       \o (IF id \in DOMAIN applied THEN applied[id] ELSE <<>>)]

LossyStart ==
    /\ ~host.running
    /\ host' = start(host, net.clock)
    /\ obs' = [obs EXCEPT !.op = "start"]
    /\ UNCHANGED <<client, net, cx, hx, ix, mx>>

LossyConnect ==
    /\ client.state = "DISCONNECTED"
    /\ net.left.connects > 0
    /\ client' = connect(ClientCall(client), net.clock).c
    /\ net' = [net EXCEPT !.toHost = @ \cup ClientOut(connect(ClientCall(client), net.clock)),
                          !.left.connects = @ - 1]
    /\ obs' = [obs EXCEPT !.op = "connect"]
    /\ UNCHANGED <<host, cx, hx, ix, mx>>

\* the state after update made x of the host
LossyHostUpdated(op, lostRun, order, x) ==
    /\ host' = x.h
    /\ net' = [net EXCEPT !.toHost = {},
                          !.toClient = @ \cup {m \in HostOut(x.h, x.out, order) :
                                                 m.to = client.address},
                          !.lostRun = lostRun]
    /\ obs' = [op |-> op, applied |-> LossyApplied(x.applied)]

\* the host's update receives the client's request
LossyAccept ==
    /\ host.running
    /\ client.state = "CONNECTING"
    /\ net.toHost # {}
    /\ \E batch \in Orders(net.toHost), order \in SampleOrders(host.nextPlayerId[2] + 1) :
         LossyHostUpdated("accept", net.lostRun, order,
                          HostUpdate(HostCall(host), 0, net.clock - host.startTime, batch,
                                     order))
    /\ UNCHANGED <<client, cx, hx, ix, mx>>

\* the client's update receives what the host has sent it
LossyClientUpdate ==
    /\ client.state # "DISCONNECTED"
    /\ InFlightTo(client.address) # {}
    /\ \E batch \in Orders(InFlightTo(client.address)) :
         /\ client' = ClientUpdate(ClientCall(client), net.clock - client.startTime, batch).c
         /\ net' = [net EXCEPT !.toClient = @ \ InFlightTo(client.address)]
    /\ obs' = [obs EXCEPT !.op = "clientUpdate"]
    /\ UNCHANGED <<host, cx, hx, ix, mx>>

\* the client sends the input of a frame, the packet of the frame before
\* having been received or lost
LossySendInput ==
    /\ host.running
    /\ client.state = "CONNECTED"
    /\ net.toHost = {}
    /\ net.left.frames > 0
    /\ client' = sendInput(ClientCall(client), ForwardInput).c
    /\ net' = [net EXCEPT !.toHost = ClientOut(sendInput(ClientCall(client), ForwardInput)),
                          !.left.frames = @ - 1]
    /\ obs' = [obs EXCEPT !.op = "sendInput"]
    /\ UNCHANGED <<host, cx, hx, ix, mx>>

\* the host's update, a tick after the one before, receives the INPUT packet
LossyDeliver ==
    /\ host.running
    /\ client.state = "CONNECTED"
    /\ net.toHost # {}
    /\ \E batch \in Orders(net.toHost), order \in SampleOrders(host.nextPlayerId[2]) :
         LossyHostUpdated("deliver", 0, order,
                          HostUpdate(HostCall(host), TICK_INTERVAL,
                                     net.clock - host.startTime, batch, order))
    /\ UNCHANGED <<client, cx, hx, ix, mx>>

\* the INPUT packet is lost and the host's update, a tick after the one
\* before, receives nothing
LossyLose ==
    /\ host.running
    /\ client.state = "CONNECTED"
    /\ net.toHost # {}
    /\ net.lostRun < MaxLostRun
    /\ \E order \in SampleOrders(host.nextPlayerId[2]) :
         LossyHostUpdated("lose", net.lostRun + 1, order,
                          HostUpdate(HostCall(host), TICK_INTERVAL,
                                     net.clock - host.startTime, <<>>, order))
    /\ UNCHANGED <<client, cx, hx, ix, mx>>

InitLossy ==
    /\ host = NewHost
    /\ \E junk \in Indeterminate : client = NewClient(ClientAddress, junk)
    /\ net = [toHost |-> {}, toClient |-> {}, clock |-> 0, lostRun |-> 0,
              left |-> [connects |-> 1, frames |-> MaxFrames]]
    /\ obs = [op |-> "init", applied |-> <<>>]
    /\ cx = Idle /\ hx = Idle /\ ix = Idle /\ mx = Idle

NextLossy ==
    \/ LossyStart
    \/ LossyConnect
    \/ LossyAccept
    \/ LossyClientUpdate
    \/ LossySendInput
    \/ LossyDeliver
    \/ LossyLose

SpecLossy == InitLossy /\ [][NextLossy]_vars

(***************************************************************************)
(* Teardown: the client connects to the host, which later stops, or drops  *)
(* the client's connection after hearing nothing of it.  Each update       *)
(* receives every datagram in flight to it, in some order, except that a   *)
(* DISCONNECT on its way to the client may be lost.  Time passes a few     *)
(* times while both sides are up, and goes on passing while a connected    *)
(* client waits for a host that no longer has its connection.  obs keeps,  *)
(* of the last step, the call, the datagrams it took and the time it read. *)
(***************************************************************************)
\* how many times the host is started
MaxTeardownStarts == 2

\* how many times time passes while the client is not left waiting
MaxTeardownElapses == 1

\* by how much time passes: more than a heartbeat interval, more than the
\* connection timeout
TeardownElapses == {HEARTBEAT_INTERVAL + 1, CONNECTION_TIMEOUT + 1}

\* the host holds no connection for the client's endpoint
Torn == findConnection(host, ClientAddress) = {}

\* a connected client whose host has dropped it, with nothing on its way to
\* it and its timeout not yet due
Waiting ==
    /\ client.state = "CONNECTED"
    /\ Torn
    /\ InFlightTo(client.address) = {}
    /\ net.clock - client.startTime - client.lastReceiveTime <= CONNECTION_TIMEOUT

TeardownDid(op, batch, now) ==
    [op |-> op, batch |-> batch, now |-> now, before |-> client.state]

TeardownStart ==
    /\ ~host.running
    /\ net.left.starts > 0
    /\ host' = start(host, net.clock)
    /\ net' = [net EXCEPT !.left.starts = @ - 1]
    /\ obs' = TeardownDid("start", <<>>, 0)
    /\ UNCHANGED <<client, cx, hx, ix, mx>>

\* Host::stop; the datagrams on their way to the closed socket are gone
TeardownStop ==
    /\ host.running
    /\ host' = stop(HostCall(host)).h
    /\ net' = [net EXCEPT !.toHost = {},
                          !.toClient = @ \cup {m \in HostOut(host, stop(HostCall(host)).out,
                                                              <<>>) :
                                                 m.to = client.address}]
    /\ obs' = TeardownDid("stop", <<>>, 0)
    /\ UNCHANGED <<client, cx, hx, ix, mx>>

TeardownConnect ==
    /\ client.state = "DISCONNECTED"
    /\ net.left.connects > 0
    /\ client' = connect(ClientCall(client), net.clock).c
    /\ net' = [net EXCEPT !.toHost = @ \cup ClientOut(connect(ClientCall(client), net.clock)),
                          !.left.connects = @ - 1]
    /\ obs' = TeardownDid("connect", <<>>, 0)
    /\ UNCHANGED <<host, cx, hx, ix, mx>>

\* the host's update, with what is in flight to it
TeardownHostUpdate ==
    /\ host.running
    /\ \E batch \in Orders(net.toHost), order \in SampleOrders(host.nextPlayerId[2] + 1) :
         /\ host' = HostUpdate(HostCall(host), 0, net.clock - host.startTime, batch, order).h
         /\ net' = [net EXCEPT
                      !.toHost = {},
                      !.toClient = @ \cup
                         {m \in HostOut(host',
                                        HostUpdate(HostCall(host), 0,
                                                   net.clock - host.startTime, batch,
                                                   order).out, order) :
                            m.to = client.address}]
         /\ obs' = TeardownDid("hostUpdate", batch, net.clock - host.startTime)
    /\ UNCHANGED <<client, cx, hx, ix, mx>>

\* the client's update, with what is in flight to it; update returns at once
\* while DISCONNECTED
TeardownClientUpdate ==
    /\ client.state # "DISCONNECTED"
    /\ \E batch \in Orders(InFlightTo(client.address)) :
         /\ client' = ClientUpdate(ClientCall(client), net.clock - client.startTime, batch).c
         /\ net' = [net EXCEPT
                      !.toHost = IF host.running
                                 THEN @ \cup ClientOut(ClientUpdate(ClientCall(client),
                                                           net.clock - client.startTime,
                                                           batch))
                                 ELSE @,
                      !.toClient = @ \ InFlightTo(client.address)]
         /\ obs' = TeardownDid("clientUpdate", batch, net.clock - client.startTime)
    /\ UNCHANGED <<host, cx, hx, ix, mx>>

\* a DISCONNECT on its way to the client is lost
TeardownLose ==
    /\ \E m \in InFlightTo(client.address) :
         /\ readHeader(Received(m.data))[1].type = DISCONNECT
         /\ net' = [net EXCEPT !.toClient = @ \ {m}]
    /\ obs' = TeardownDid("lose", <<>>, 0)
    /\ UNCHANGED <<host, client, cx, hx, ix, mx>>

\* time passes
TeardownElapse ==
    /\ net.left.elapses > 0 \/ Waiting
    /\ \E d \in TeardownElapses :
         /\ Waiting /\ net.left.elapses = 0 => d > CONNECTION_TIMEOUT
         /\ net' = [net EXCEPT !.clock = @ + d,
                               !.left.elapses = IF @ > 0 THEN @ - 1 ELSE @]
    /\ obs' = TeardownDid("elapse", <<>>, 0)
    /\ UNCHANGED <<host, client, cx, hx, ix, mx>>

InitTeardown ==
    /\ host = NewHost
    /\ \E junk \in Indeterminate : client = NewClient(ClientAddress, junk)
    /\ net = [toHost |-> {}, toClient |-> {}, clock |-> 0,
              left |-> [starts |-> MaxTeardownStarts, connects |-> 1,
                        elapses |-> MaxTeardownElapses]]
    /\ obs = [op |-> "init", batch |-> <<>>, now |-> 0, before |-> "DISCONNECTED"]
    /\ cx = Idle /\ hx = Idle /\ ix = Idle /\ mx = Idle

NextTeardown ==
    \/ TeardownStart
    \/ TeardownStop
    \/ TeardownConnect
    \/ TeardownHostUpdate
    \/ TeardownClientUpdate
    \/ TeardownLose
    \/ TeardownElapse

\* ENABLED <<TeardownClientUpdate>>_vars: the client is not DISCONNECTED and
\* a call of update changes something
TeardownClientUpdateEnabled ==
    /\ client.state # "DISCONNECTED"
    /\ \/ obs.op # "clientUpdate"
       \/ obs.batch # <<>>
       \/ obs.now # net.clock - client.startTime
       \/ obs.before # client.state
       \/ InFlightTo(client.address) # {}
       \/ ClientUpdate(ClientCall(client), net.clock - client.startTime, <<>>).c # client

\* ENABLED <<TeardownElapse>>_vars
TeardownElapseEnabled == net.left.elapses > 0 \/ Waiting

\* the client keeps calling update and time keeps passing:
\* WF_vars(TeardownClientUpdate) and WF_vars(TeardownElapse), each written
\* out as []<>~ENABLED <<A>>_vars \/ []<><<A>>_vars
KeepWaiting ==
    /\ []<>(~TeardownClientUpdateEnabled) \/ []<><<TeardownClientUpdate>>_vars
    /\ []<>(~TeardownElapseEnabled) \/ []<><<TeardownElapse>>_vars

SpecTeardown == InitTeardown /\ [][NextTeardown]_vars /\ KeepWaiting

(***************************************************************************)
(* Membership scenario: the host is started and stopped, endpoints send    *)
(* it requests, inputs, heartbeats and disconnects, it times connections   *)
(* out, and the application asks for the local player.  obs keeps, of an   *)
(* update, what the two maps held where each callback was called.          *)
(***************************************************************************)
MaxMapsStarts == 2
MaxMapsSends == 3
MaxMapsUpdates == 3
MaxMapsElapses == 1

MapsBudget ==
    [starts |-> MaxMapsStarts, sends |-> MaxMapsSends, updates |-> MaxMapsUpdates,
     elapses |-> MaxMapsElapses]

\* Host::getLocalPlayer, called by the application
MapsGetLocalPlayer ==
    /\ U32(0) \notin DOMAIN host.players
    /\ host' = getLocalPlayer(host)
    /\ obs' = Served("getLocalPlayer", 0, <<>>, Serving)
    /\ UNCHANGED <<client, net, cx, hx, ix, mx>>

\* the state after update(deltaTime) made x of the host
MapsUpdated(deltaTime, batch, x) ==
    /\ host' = x.h
    /\ net' = [net EXCEPT !.toHost = @ \ {batch[i] : i \in DOMAIN batch},
                          !.left.updates = @ - 1]
    /\ obs' = [held |-> x.held] @@ Served("update", deltaTime, batch, x)

MapsUpdate ==
    /\ host.running
    /\ net.left.updates > 0
    /\ \E batch \in Batches(net.toHost, MaxBatch),
          order \in SampleOrders(host.nextPlayerId[2] + MaxBatch) :
         MapsUpdated(SNAPSHOT_INTERVAL, batch,
                     HostUpdate(Serving, SNAPSHOT_INTERVAL, net.clock - host.startTime, batch,
                                order))
    /\ UNCHANGED <<client, cx, hx, ix, mx>>

\* more than CONNECTION_TIMEOUT passes
MapsElapse ==
    /\ net.left.elapses > 0
    /\ net' = [net EXCEPT !.clock = @ + CONNECTION_TIMEOUT + 1, !.left.elapses = @ - 1]
    /\ obs' = Served("elapse", 0, <<>>, Serving)
    /\ UNCHANGED <<host, client, cx, hx, ix, mx>>

InitMaps == InitServeWith(MapsBudget)

NextMaps ==
    \/ ServeStart
    \/ ServeStop
    \/ MapsUpdate
    \/ PeerSend
    \/ MapsElapse
    \/ MapsGetLocalPlayer

SpecMaps == InitMaps /\ [][NextMaps]_vars

(***************************************************************************)
(* The ways into DISCONNECTED: the application calls connect, update,      *)
(* sendInput and disconnect in any state; the server endpoint accepts or   *)
(* rejects the client, reports another player, or says DISCONNECT; time    *)
(* passes between the calls of update.  obs keeps, with the call, how many *)
(* remote players and inputs the client held before it.                    *)
(***************************************************************************)
MaxCleanupConnects == 1
MaxCleanupUpdates == 3
MaxCleanupSends == 3
MaxCleanupDisconnects == 2

\* by how much getTime() has advanced when update reads it
CleanupElapses == {0, CONNECTION_TIMEOUT + 1}

\* what the server endpoint sends: a header of one of these types, or the
\* STATE_UPDATE with the state of player 2
CleanupPackets(sequence) ==
    {ServerPacket(type, sequence) : type \in {CONNECT_ACCEPT, CONNECT_REJECT, DISCONNECT}}
      \cup {ReportPacket(sequence, Spawned(NewPlayerState, U32(2)))}

\* what obs keeps of a call; y is what the call made of the client
Cleaned(op, now, batch, y) ==
    [had |-> [remotePlayers |-> Cardinality(DOMAIN client.remotePlayers),
              interpolationStates |-> Cardinality(DOMAIN client.interpolationStates),
              inputs |-> client.inputHistory.count]]
      @@ Called(op, now, batch, y)

\* update is called in any state; a DISCONNECTED client has no socket to
\* receive from
CleanupUpdate ==
    /\ net.left.updates > 0
    /\ \E batch \in Batches(net.toClient, MaxBatch), elapsed \in CleanupElapses :
         /\ client.state = "DISCONNECTED" => batch = <<>>
         /\ client' = ClientUpdate(ClientCall(client), net.clock + elapsed - client.startTime,
                                   batch).c
         /\ obs' = Cleaned("update", net.clock + elapsed - client.startTime, batch,
                           ClientUpdate(ClientCall(client),
                                        net.clock + elapsed - client.startTime, batch))
         /\ net' = [net EXCEPT !.toClient = @ \ {batch[i] : i \in DOMAIN batch},
                               !.clock = @ + elapsed,
                               !.left.updates = @ - 1]
    /\ UNCHANGED <<host, cx, hx, ix, mx>>

\* disconnect is called in any state
CleanupDisconnect ==
    /\ net.left.disconnects > 0
    /\ client' = disconnect(ClientCall(client)).c
    /\ obs' = Cleaned("disconnect", 0, <<>>, disconnect(ClientCall(client)))
    /\ net' = [net EXCEPT !.left.disconnects = @ - 1]
    /\ UNCHANGED <<host, cx, hx, ix, mx>>

\* the server endpoint sends its next packet to the socket the client has bound
CleanupSend ==
    /\ client.state # "DISCONNECTED"
    /\ net.left.sends > 0
    /\ \E packet \in CleanupPackets(U32Inc(net.serverSequence)) :
         net' = [ServerSent(packet) EXCEPT !.left.sends = @ - 1]
    /\ obs' = Called("send", 0, <<>>, ClientCall(client))
    /\ UNCHANGED <<host, client, cx, hx, ix, mx>>

CleanupBudget ==
    [connects |-> MaxCleanupConnects, updates |-> MaxCleanupUpdates,
     sends |-> MaxCleanupSends, inputs |-> 1, disconnects |-> MaxCleanupDisconnects]

InitCleanup ==
    /\ host = NewHost
    /\ \E junk \in Indeterminate : client = NewClient(ClientAddress, junk)
    /\ net = [toHost |-> {}, toClient |-> {}, clock |-> 0, left |-> CleanupBudget,
              serverSequence |-> U32(0)]
    /\ obs = [op |-> "init", batch |-> <<>>, types |-> {}, out |-> {}, events |-> <<>>,
              before |-> "DISCONNECTED", now |-> 0]
    /\ cx = Idle /\ hx = Idle /\ ix = Idle /\ mx = Idle

NextCleanup ==
    \/ CallConnect
    \/ CleanupUpdate
    \/ CallSendInput
    \/ CleanupDisconnect
    \/ CleanupSend

SpecCleanup == InitCleanup /\ [][NextCleanup]_vars

Transitions ==
    {<<"DISCONNECTED", "CONNECTING">>, <<"CONNECTING", "CONNECTED">>,
     <<"CONNECTING", "DISCONNECTED">>, <<"CONNECTED", "DISCONNECTED">>}

\* C12: under connect, update, sendInput, disconnect and received packets the
\* client's state changes only along DISCONNECTED -> CONNECTING,
\* CONNECTING -> CONNECTED, CONNECTING -> DISCONNECTED and
\* CONNECTED -> DISCONNECTED.
C12_StateChangesAlongMachine ==
    [][client.state # client'.state => <<client.state, client'.state>> \in Transitions]_vars

\* the host has allocated an id for the client's endpoint, whose request it
\* received, and the client is waiting for the answer
RequestAccepted == obs.allocated # U32(0) /\ client.state = "CONNECTING"

\* the client is CONNECTED under the id the host allocated, which
\* onConnected was called with
ConnectedAsAllocated ==
    /\ client.state = "CONNECTED"
    /\ client.playerId = obs.allocated
    /\ U32Gt(client.playerId, U32(0))
    /\ obs.connectedAs # <<>>
    /\ obs.connectedAs[Len(obs.connectedAs)].playerId = client.playerId

\* the host holds a Connection and, at spawn, a PlayerState under the id
HoldsSpawned(h, id) ==
    /\ id \in DOMAIN h.connections
    /\ h.connections[id].playerId = id
    /\ h.connections[id].state = "CONNECTED"
    /\ id \in DOMAIN h.players
    /\ h.players[id] = Spawned(NewPlayerState, id)

\* C13: when the host has received the client's CONNECT_REQUEST it holds a
\* Connection and a PlayerState at spawn under the id it allocated, at least
\* 1, and with both sides calling update and the CONNECT_ACCEPT delivered
\* the client becomes CONNECTED, onConnected called with that id.
C13_HandshakeConnects ==
    /\ [][obs'.allocated # obs.allocated =>
            /\ U32Gt(obs'.allocated, U32(0))
            /\ HoldsSpawned(host', obs'.allocated)]_vars
    /\ (RequestAccepted ~> ConnectedAsAllocated)

\* the client connected as player 2, the other endpoint having come first
C13_Witness == ConnectedAsAllocated /\ client.playerId = U32(2) /\ obs.op = "clientUpdate"

\* the packet types of the datagrams a call sent
SentTypes(out) == {readHeader(Received(m.data))[1].type : m \in out}

\* an update of a CONNECTING client, at time obs'.now, that received no
\* packet of the given types ends as the connect timeout and the resend
\* rule say: DISCONNECTED once now - connectStartTime exceeds
\* CONNECTION_TIMEOUT; before that still CONNECTING, with a CONNECT_REQUEST
\* sent exactly when more than 1 s has passed since the last send
ConnectingByTheClock(types) ==
    (obs'.op = "update" /\ client.state = "CONNECTING" /\ obs'.types \cap types = {}) =>
        IF obs'.now - client.connectStartTime > CONNECTION_TIMEOUT
        THEN client'.state = "DISCONNECTED"
        ELSE /\ client'.state = "CONNECTING"
             /\ (CONNECT_REQUEST \in SentTypes(obs'.out)) <=>
                    (obs'.now - client.lastSendTime > TimeUnitsPerSecond)

\* C14 as stated: a CONNECTING client that receives no CONNECT_ACCEPT stays
\* CONNECTING over its updates, re-sending CONNECT_REQUEST whenever more
\* than 1 s has passed since its last send, until now - connectStartTime
\* exceeds CONNECTION_TIMEOUT, and is DISCONNECTED by the first update after.
C14_TimesOutWithoutAccept == [][ConnectingByTheClock({CONNECT_ACCEPT})]_vars

\* C14: the same of a CONNECTING client that receives no CONNECT_ACCEPT,
\* CONNECT_REJECT or DISCONNECT.
C14_TimesOutUnanswered ==
    [][ConnectingByTheClock({CONNECT_ACCEPT, CONNECT_REJECT, DISCONNECT})]_vars

\* the client has asked twice and given up after the timeout
C14_Witness ==
    /\ obs.op = "update"
    /\ obs.before = "CONNECTING"
    /\ obs.types = {}
    /\ obs.now > CONNECTION_TIMEOUT
    /\ client.state = "DISCONNECTED"
    /\ client.localSequence = U32(3)

\* the header of a datagram
HeaderOf(m) == readHeader(Received(m.data))[1]

\* the word after the header of a datagram
FirstWordOf(m) == readU32(readHeader(Received(m.data))[2])[1]

\* the datagrams of a given type among those sent to an address
SentTo(out, address, type) == {m \in out : m.to = address /\ HeaderOf(m).type = type}

\* the step is an update of the running host that receives one datagram, of
\* the given type, from the peer of connection p, and times out no other
\* connection
Handles(type, p) ==
    /\ obs'.op = "update"
    /\ Len(obs'.batch) = 1
    /\ HeaderOf(obs'.batch[1]).type = type
    /\ findConnection(host, obs'.batch[1].from) = {p}
    /\ TimedOut(host, net.clock - host.startTime) \subseteq {p}

\* C15: when the host handles a DISCONNECT from the peer of connection p,
\* ENTITY_DESTROY(p) goes to every connected peer, p's own included as the
\* broadcast comes first, the Connection and the PlayerState of p are
\* erased, the player count falls by one with every other player's entry
\* as it was, and onPlayerDisconnected(p) is called exactly once.
C15_GracefulDisconnect ==
    [][\A p \in DOMAIN host.connections :
         Handles(DISCONNECT, p) =>
           /\ \A id \in Connected(host) :
                \E m \in SentTo(obs'.out, host.connections[id].address, ENTITY_DESTROY) :
                   FirstWordOf(m) = p
           /\ p \notin DOMAIN host'.connections
           /\ p \notin DOMAIN host'.players
           /\ Cardinality(DOMAIN host'.players) = Cardinality(DOMAIN host.players) - 1
           /\ \A q \in DOMAIN host.players \ {p} :
                q \in DOMAIN host'.players /\ host'.players[q] = host.players[q]
           /\ obs'.events = <<[callback |-> "onPlayerDisconnected", playerId |-> p]>>]_vars

\* player 1 has left a host on which player 2 stays
C15_Witness ==
    /\ obs.op = "update"
    /\ obs.events = <<[callback |-> "onPlayerDisconnected", playerId |-> U32(1)]>>
    /\ DOMAIN host.players = {U32(2)}
    /\ Cardinality({m \in obs.out : HeaderOf(m).type = ENTITY_DESTROY}) = 2

\* the entity id, the entity type and the position an ENTITY_CREATE carries
CreateOf(m) ==
    [entityId |-> FirstWordOf(m),
     type |-> readU8(readU32(readHeader(Received(m.data))[2])[2])[1],
     position |-> readVec3(readU8(readU32(readHeader(Received(m.data))[2])[2])[2])[1]]

\* the step is an update of the host that receives one datagram and accepts
\* its sender as the new player p
Accepts(p) ==
    /\ obs'.op = "update"
    /\ Len(obs'.batch) = 1
    /\ obs'.events # <<>>
    /\ obs'.events[1] = [callback |-> "onPlayerConnected", playerId |-> p]

\* C16: when the host accepts a new peer as player p, every peer connected
\* before is sent ENTITY_CREATE(p, type 0, spawn position) and the new peer
\* none; the new peer is sent CONNECT_ACCEPT and after it WORLD_SNAPSHOT,
\* and no other peer a WORLD_SNAPSHOT.
C16_CreateGoesToTheOthers ==
    [][\A p \in {host.nextPlayerId} :
         Accepts(p) =>
           /\ \A id \in Connected(host) :
                /\ SentTo(obs'.out, host.connections[id].address, ENTITY_CREATE) # {}
                /\ \A m \in SentTo(obs'.out, host.connections[id].address, ENTITY_CREATE) :
                     CreateOf(m) = [entityId |-> p, type |-> 0,
                                    position |-> Spawned(NewPlayerState, p).position]
           /\ SentTo(obs'.out, obs'.batch[1].from, ENTITY_CREATE) = {}
           /\ \E a \in SentTo(obs'.out, obs'.batch[1].from, CONNECT_ACCEPT),
                 w \in SentTo(obs'.out, obs'.batch[1].from, WORLD_SNAPSHOT) :
                /\ FirstWordOf(a) = p
                /\ U32Lt(HeaderOf(a).sequence, HeaderOf(w).sequence)
           /\ \A m \in obs'.out :
                HeaderOf(m).type = WORLD_SNAPSHOT => m.to = obs'.batch[1].from]_vars

\* player 2 was accepted and player 1 told of it
C16_Witness ==
    /\ obs.op = "update"
    /\ obs.events = <<[callback |-> "onPlayerConnected", playerId |-> U32(2)]>>
    /\ \E m \in obs.out : HeaderOf(m).type = ENTITY_CREATE /\ FirstWordOf(m) = U32(2)

\* whether the datagrams an update takes hold one of the given types from
\* the given address
Delivers(batch, address, types) ==
    \E i \in DOMAIN batch : batch[i].from = address /\ HeaderOf(batch[i]).type \in types

\* the time connection id last received at when the update's timeout check
\* runs: the time of the update if a HEARTBEAT, INPUT or ACK of its peer was
\* handled in it
LastReceiveAt(id, batch, now) ==
    IF Delivers(batch, host.connections[id].address, {HEARTBEAT, INPUT, ACK}) THEN now
    ELSE host.connections[id].lastReceiveTime

\* C17: in an update at time now a connection, unless it is the one whose
\* DISCONNECT the update handles, is removed if and only if
\* now - lastReceiveTime > CONNECTION_TIMEOUT, lastReceiveTime being the
\* time at which a HEARTBEAT, INPUT or ACK of its peer was last handled (or
\* the connection made); a connection removed loses its PlayerState too, and
\* one kept has that lastReceiveTime.
C17_RemovedIffSilentTooLong ==
    [][(obs'.op = "update" /\ Len(obs'.batch) <= 1) =>
         \A id \in DOMAIN host.connections :
            ~Delivers(obs'.batch, host.connections[id].address, {DISCONNECT}) =>
               IF net.clock - host.startTime
                     - LastReceiveAt(id, obs'.batch, net.clock - host.startTime)
                  > CONNECTION_TIMEOUT
               THEN /\ id \notin DOMAIN host'.connections
                    /\ id \notin DOMAIN host'.players
                    /\ \E i \in DOMAIN obs'.events :
                         obs'.events[i] = [callback |-> "onPlayerDisconnected",
                                           playerId |-> id]
               ELSE /\ id \in DOMAIN host'.connections
                    /\ id \in DOMAIN host'.players
                    /\ host'.connections[id].lastReceiveTime =
                          LastReceiveAt(id, obs'.batch, net.clock - host.startTime)]_vars

\* player 1, silent for longer than the timeout, was removed by an update
\* that received nothing
C17_Witness ==
    /\ obs.op = "update"
    /\ obs.batch = <<>>
    /\ obs.events = <<[callback |-> "onPlayerDisconnected", playerId |-> U32(1)]>>
    /\ U32(1) \notin DOMAIN host.players

\* the sequence numbers of the packets handled on connection id
HeardOn(id) == IF id \in DOMAIN obs.heard THEN obs.heard[id] ELSE {}

\* bit i of a uint32_t
U32Bit(a, i) ==
    IF i >= 16 THEN (a[1] \div (2 ^ (i - 16))) % 2 = 1 ELSE (a[2] \div (2 ^ i)) % 2 = 1

\* C18: for every connection of the host, remoteSequence is the highest
\* sequence number of the packets handled on it (0 when there is none), and
\* for every i in 0..31 bit i of ackBits is set if and only if a packet with
\* sequence number remoteSequence - i was handled on it.
C18_AckBitsTellWhatWasReceived ==
    \A id \in DOMAIN host.connections :
       /\ \A s \in HeardOn(id) : ~U32Gt(s, host.connections[id].remoteSequence)
       /\ HeardOn(id) # {} => host.connections[id].remoteSequence \in HeardOn(id)
       /\ \A i \in 0..31 :
            U32Bit(host.connections[id].ackBits, i)
            <=> \E s \in HeardOn(id) :
                   /\ ~U32Gt(s, host.connections[id].remoteSequence)
                   /\ U32Sub(host.connections[id].remoteSequence, s) = U32(i)

\* whether datagram m carries the remoteSequence and the ackBits of the
\* connection conn in its header
CarriesAcksOf(m, conn) ==
    /\ HeaderOf(m).ack = conn.remoteSequence
    /\ HeaderOf(m).ackBits = conn.ackBits

\* C19: every packet an update of the host sends to the peer of a
\* connection carries that connection's remoteSequence in header.ack and
\* its ackBits in header.ackBits, whatever the packet's type.  (An update
\* that handles at most one datagram changes remoteSequence and ackBits
\* before it sends anything, so the values at the time of sending are those
\* the connection has afterwards.)
C19_EveryPacketCarriesAcks ==
    (obs.op = "update" /\ Len(obs.batch) <= 1) =>
       \A m \in obs.out : \A id \in DOMAIN host.connections :
          host.connections[id].address = m.to => CarriesAcksOf(m, host.connections[id])

\* the step is an update that handles one CONNECT_REQUEST, from an endpoint
\* without a connection, while the host has MAX_PLAYERS connections
RequestAtCapacity ==
    /\ obs'.op = "update"
    /\ Len(obs'.batch) = 1
    /\ HeaderOf(obs'.batch[1]).type = CONNECT_REQUEST
    /\ findConnection(host, obs'.batch[1].from) = {}
    /\ Cardinality(DOMAIN host.connections) = MAX_PLAYERS

\* C20: the host never has more than MAX_PLAYERS connections, and a
\* CONNECT_REQUEST of an endpoint without a connection that is handled while
\* there are MAX_PLAYERS connections is answered with CONNECT_REJECT, leaves
\* nextPlayerId as it is and makes no Connection and no PlayerState.
C20_NeverMoreThanMaxPlayers ==
    [][/\ Cardinality(DOMAIN host'.connections) <= MAX_PLAYERS
       /\ RequestAtCapacity =>
            /\ SentTo(obs'.out, obs'.batch[1].from, CONNECT_REJECT) # {}
            /\ host'.nextPlayerId = host.nextPlayerId
            /\ DOMAIN host'.connections = DOMAIN host.connections
            /\ DOMAIN host'.players = DOMAIN host.players]_vars

(***************************************************************************)
(* Claims C21 to C30.                                                      *)
(***************************************************************************)
\* whether a call made the client call back onConnected
FiredOnConnected(events) ==
    \E i \in DOMAIN events : events[i].callback = "onConnected"

\* C21: an update of a client that is not CONNECTING which receives nothing
\* but CONNECT_ACCEPT leaves playerId, localState, serverTick and the state
\* of the connection as they were and does not call onConnected.
C21_AcceptDroppedUnlessConnecting ==
    [][(obs'.op = "update" /\ obs'.types = {CONNECT_ACCEPT} /\ client.state # "CONNECTING") =>
         /\ client'.playerId = client.playerId
         /\ client'.localState = client.localState
         /\ client'.serverTick = client.serverTick
         /\ client'.state = client.state
         /\ ~FiredOnConnected(obs'.events)]_vars

\* whether every datagram of a batch is shorter than a header
AllCutShort(batch) == \A i \in DOMAIN batch : Len(batch[i].data) < HeaderBytes

\* C22: an update of the host, with no time passed, that receives only
\* datagrams shorter than the header leaves the host as it was (no
\* connection made or removed, no lastReceiveTime refreshed) and sends
\* nothing.
C22_ShortDatagramDropped ==
    [][(obs'.op = "update" /\ obs'.batch # <<>> /\ AllCutShort(obs'.batch)) =>
         /\ host' = host
         /\ obs'.out = {}
         /\ obs'.events = <<>>]_vars

\* the step is an update, with no time passed, that receives one INPUT
\* datagram from the peer of connection id whose header declares more
\* payload bytes than follow the header
ShortInputFrom(id) ==
    /\ obs'.op = "update"
    /\ Len(obs'.batch) = 1
    /\ id \in findConnection(host, obs'.batch[1].from)
    /\ Len(obs'.batch[1].data) >= HeaderBytes
    /\ HeaderOf(obs'.batch[1]).type = INPUT
    /\ HeaderOf(obs'.batch[1]).payloadSize > Len(obs'.batch[1].data) - HeaderBytes

\* C23: an INPUT datagram of a connected peer whose header declares more
\* payload than the datagram carries puts nothing onto the connection's
\* pendingInputs and leaves the players as they were.
C23_ShortInputDropped ==
    [][\A id \in DOMAIN host.connections :
          ShortInputFrom(id) =>
             /\ host'.connections[id].pendingInputs = host.connections[id].pendingInputs
             /\ host'.players = host.players]_vars

\* the bytes sendInput leaves free for the header before the inputs
ReservedForHeader == 22

\* the smaller of two numbers
Min(a, b) == IF a < b THEN a ELSE b

\* the last min(count, 5) inputs of an InputHistory, oldest first
LastUnacked(h) ==
    [i \in 1..Min(h.count, 5) |-> getUnacknowledged(h)[h.count - Min(h.count, 5) + i]]

\* the bytes writePlayerInput makes of a list of inputs
InputBytes(inputs) == Datagram(writePlayerInputs(EmptyBuffer, inputs))

\* whether datagram m, after the bytes left free for the header, is the
\* given inputs one after the other (the first of those bytes is under the
\* last byte of the header and is not compared)
CarriesInputs(m, inputs) ==
    /\ HeaderOf(m).type = INPUT
    /\ Len(m.data) = ReservedForHeader + Len(InputBytes(inputs))
    /\ SubSeq(m.data, ReservedForHeader + 2, Len(m.data)) = Tail(InputBytes(inputs))

Appliable(id) ==
    {host.connections[id].pendingInputs[i].sequence :
       i \in DOMAIN host.connections[id].pendingInputs}
    \cup UNION {{readInputs(readHeader(Received(obs'.batch[i].data))[2],
                            HeaderOf(obs'.batch[i]).payloadSize \div 21)[j].sequence :
                   j \in 1..(HeaderOf(obs'.batch[i]).payloadSize \div 21)} :
                i \in {i \in DOMAIN obs'.batch :
                         /\ obs'.batch[i].from = host.connections[id].address
                         /\ HeaderOf(obs'.batch[i]).type = INPUT}}

\* C25: a connection's lastProcessedInput never decreases while the
\* connection exists; it changes only in an update that ticks, and then to
\* the sequence number of an input that tick applied, which the player's
\* state records too.
C25_LastProcessedInputOnlyGrows ==
    [][\A id \in DOMAIN host.connections \cap DOMAIN host'.connections :
          /\ ~U32Lt(host'.connections[id].lastProcessedInput,
                    host.connections[id].lastProcessedInput)
          /\ host'.connections[id].lastProcessedInput # host.connections[id].lastProcessedInput
             => /\ obs'.op = "update"
                /\ obs'.ticks > 0
                /\ host'.connections[id].lastProcessedInput \in Appliable(id)
                /\ host'.players[id].lastProcessedInput
                      = host'.connections[id].lastProcessedInput]_vars

\* a tick has raised connection 1's lastProcessedInput to 3 while an input
\* with a lower number, received after it, was dropped from the queue
C25_Witness ==
    /\ obs.op = "update"
    /\ obs.ticks > 0
    /\ U32(1) \in DOMAIN host.connections
    /\ host.connections[U32(1)].lastProcessedInput = U32(3)
    /\ host.connections[U32(1)].pendingInputs = <<>>
    /\ Len(obs.batch) = 1
    /\ HeaderOf(obs.batch[1]).type = INPUT
    /\ FirstWordOf(obs.batch[1]) = U32(2)

\* the positions of the bits of a uint32_t that are set
BitsOf(a) == {i \in 0..31 : U32Bit(a, i)}

\* whether the uint32_t a is greater than b
Above(a, b) == a[1] > b[1] \/ (a[1] = b[1] /\ a[2] > b[2])

\* a - b for a above b, or 32 if that is more than 32
Apart(a, b) ==
    IF a[1] - b[1] >= 2 THEN 32
    ELSE Min((a[1] - b[1]) * 65536 + a[2] - b[2], 32)

\* the rule of updateAcks on sets of bit positions: what remoteSequence r
\* and the set bits become on a packet with sequence number s
AckRule(r, bits, s) ==
    IF Above(s, r)
    THEN [remoteSequence |-> s,
          bits |-> IF Apart(s, r) >= 32 THEN {0}
                   ELSE {i + Apart(s, r) : i \in {k \in bits : k + Apart(s, r) <= 31}} \cup {0}]
    ELSE IF Above(r, s) /\ Apart(r, s) < 32
    THEN [remoteSequence |-> r, bits |-> bits \cup {Apart(r, s)}]
    ELSE [remoteSequence |-> r, bits |-> bits]

\* whether the ack state `after` is what the rule makes of `before` on a
\* packet with the sequence number
FollowsAckRule(before, after, sequence) ==
    /\ after.remoteSequence
          = AckRule(before.remoteSequence, BitsOf(before.ackBits), sequence).remoteSequence
    /\ BitsOf(after.ackBits)
          = AckRule(before.remoteSequence, BitsOf(before.ackBits), sequence).bits
    /\ ~Above(before.remoteSequence, after.remoteSequence)

\* C26: updateAcks of the Host and of the Client, on a packet with sequence
\* S: if S > remoteSequence, ackBits becomes (ackBits << (S - remoteSequence))
\* | 1 in 32 bits, or 1 when the shift is 32 or more, and remoteSequence
\* becomes S; if S < remoteSequence and d = remoteSequence - S < 32, bit d of
\* ackBits is set and nothing else changes; otherwise nothing changes;
\* remoteSequence never decreases.
C26_UpdateAcksStepRule ==
    [][/\ (obs'.op = "updateAcks" /\ obs'.by = "host") =>
             FollowsAckRule(host.connections[obs'.id], host'.connections[obs'.id],
                            obs'.sequence)
       /\ (obs'.op = "updateAcks" /\ obs'.by = "client") =>
             FollowsAckRule(client, client', obs'.sequence)]_vars

\* the host's connection, at remoteSequence 33 with the bit of sequence 32
\* set, was handed sequence 2, which is 31 behind: bits 0, 1 and 31 are set
C26_Witness ==
    /\ obs.op = "updateAcks"
    /\ obs.by = "host"
    /\ obs.sequence = U32(2)
    /\ host.connections[obs.id].remoteSequence = U32(33)
    /\ host.connections[obs.id].ackBits = <<32768, 3>>

\* C27: when the host handles a CONNECT_REQUEST from the peer of a
\* connection p (and no connection times out in the same update),
\* nextPlayerId, the set of connections, the set of players and the
\* PlayerState of p stay as they were, no callback is made, no ENTITY_CREATE
\* and no WORLD_SNAPSHOT is sent, and one CONNECT_ACCEPT carrying p is sent
\* to the peer.
C27_RepeatedRequestIsIdempotent ==
    [][\A p \in DOMAIN host.connections :
         (Handles(CONNECT_REQUEST, p) /\ TimedOut(host, net.clock - host.startTime) = {}) =>
           /\ host'.nextPlayerId = host.nextPlayerId
           /\ DOMAIN host'.connections = DOMAIN host.connections
           /\ DOMAIN host'.players = DOMAIN host.players
           /\ host'.players[p] = host.players[p]
           /\ obs'.events = <<>>
           /\ \A m \in obs'.out : HeaderOf(m).type \notin {ENTITY_CREATE, WORLD_SNAPSHOT}
           /\ Cardinality(SentTo(obs'.out, obs'.batch[1].from, CONNECT_ACCEPT)) = 1
           /\ \A m \in SentTo(obs'.out, obs'.batch[1].from, CONNECT_ACCEPT) :
                FirstWordOf(m) = p
           /\ \A m \in obs'.out :
                HeaderOf(m).type = CONNECT_ACCEPT => m.to = obs'.batch[1].from]_vars

\* with two players connected, player 1's endpoint asked again and was sent
\* CONNECT_ACCEPT with 1 and nothing was called back
C27_Witness ==
    /\ obs.op = "update"
    /\ Len(obs.batch) = 1
    /\ HeaderOf(obs.batch[1]).type = CONNECT_REQUEST
    /\ obs.events = <<>>
    /\ Cardinality(DOMAIN host.connections) = 2
    /\ \E m \in SentTo(obs.out, obs.batch[1].from, CONNECT_ACCEPT) : FirstWordOf(m) = U32(1)

\* C28: in an update of the running host, with a the snapshot accumulator
\* plus deltaTime: when a >= SNAPSHOT_INTERVAL one STATE_UPDATE goes to
\* every connected peer and the accumulator becomes a - SNAPSHOT_INTERVAL,
\* however many intervals a holds; otherwise no STATE_UPDATE is sent and the
\* accumulator becomes a; a STATE_UPDATE goes to connected peers only.
C28_OneStateUpdatePerUpdate ==
    [][(obs'.op = "update" /\ host.running) =>
         /\ \A id \in Connected(host') :
              Cardinality(SentTo(obs'.out, host'.connections[id].address, STATE_UPDATE))
                = IF host.snapshotAccumulator + obs'.deltaTime >= SNAPSHOT_INTERVAL
                  THEN 1 ELSE 0
         /\ \A m \in obs'.out :
              HeaderOf(m).type = STATE_UPDATE =>
                \E id \in Connected(host') : host'.connections[id].address = m.to
         /\ host'.snapshotAccumulator =
              IF host.snapshotAccumulator + obs'.deltaTime >= SNAPSHOT_INTERVAL
              THEN host.snapshotAccumulator + obs'.deltaTime - SNAPSHOT_INTERVAL
              ELSE host.snapshotAccumulator + obs'.deltaTime]_vars

\* an update with a deltaTime of more than two snapshot intervals sent one
\* STATE_UPDATE to each of two connected peers and left more than an
\* interval in the accumulator
C28_Witness ==
    /\ obs.op = "update"
    /\ obs.deltaTime > 2 * SNAPSHOT_INTERVAL
    /\ host.snapshotAccumulator >= SNAPSHOT_INTERVAL
    /\ Cardinality(Connected(host)) = 2
    /\ \A id \in Connected(host) :
         Cardinality(SentTo(obs.out, host.connections[id].address, STATE_UPDATE)) = 1

\* the datagram is a packet Host::handlePacket does nothing with on host h:
\* one of a type without a case, or a DISCONNECT, HEARTBEAT, INPUT or ACK
\* from an endpoint without a connection
Stray(h, m) ==
    /\ isValid(HeaderOf(m))
    /\ \/ HeaderOf(m).type \notin HostCases
       \/ /\ HeaderOf(m).type \in HostCases \ {CONNECT_REQUEST}
          /\ findConnection(h, m.from) = {}

\* C29: an update of the running host with deltaTime 0, in which no
\* connection times out and no heartbeat is due, and which receives one
\* stray packet, leaves the whole state of the host as it was, sends
\* nothing and calls nothing back.
C29_StrayPacketChangesNothing ==
    [][(/\ obs'.op = "update"
        /\ host.running
        /\ obs'.deltaTime = 0
        /\ Len(obs'.batch) = 1
        /\ Stray(host, obs'.batch[1])
        /\ TimedOut(host, net.clock - host.startTime) = {}
        /\ HeartbeatDue(host, net.clock - host.startTime) = {}) =>
         /\ host' = host
         /\ obs'.out = {}
         /\ obs'.events = <<>>]_vars

\* some time after a peer connected, the host received an INPUT from an
\* endpoint without a connection and is as it was before
C29_Witness ==
    /\ obs.op = "update"
    /\ Len(obs.batch) = 1
    /\ HeaderOf(obs.batch[1]).type = INPUT
    /\ findConnection(host, obs.batch[1].from) = {}
    /\ Cardinality(Connected(host)) = 1
    /\ net.clock > 0
    /\ obs.out = {}

\* some time after a peer connected, the host received from it a packet of
\* a type without a case
OtherTypeReceived ==
    /\ obs.op = "update"
    /\ Len(obs.batch) = 1
    /\ HeaderOf(obs.batch[1]).type \in OtherTypes
    /\ findConnection(host, obs.batch[1].from) # {}
    /\ net.clock > 0

\* the states an InterpolationState holds: those of the last
\* min(count, STATE_BUFFER_SIZE) insertions
InterpBuffered(s) ==
    {InterpNth(s, m) :
       m \in (IF s.count > STATE_BUFFER_SIZE THEN s.count - STATE_BUFFER_SIZE ELSE 0)
             ..(s.count - 1)}

\* C30: after one or more insertions, interpolate(renderTick) succeeds with
\* the most recently inserted state, unchanged, when that state has
\* tick <= renderTick, and fails only when no state in the buffer has
\* tick <= renderTick.
C30_FreezesOnNewestState ==
    (ix.op = "interpolated" /\ ix.st.count >= 1) =>
        /\ U32Le(InterpNth(ix.st, ix.st.count - 1).tick, ix.target) =>
              /\ ix.res.ok
              /\ ix.res.out = InterpNth(ix.st, ix.st.count - 1)
        /\ ~ix.res.ok => \A b \in InterpBuffered(ix.st) : ~U32Le(b.tick, ix.target)

\* the player state a STATE_UPDATE datagram with one player carries
ReportedState(m) == readPlayerState(readU8(readHeader(Received(m.data))[2])[2])[1]

\* the square of the distance of two positions, in (1/FScale)^2
DistanceSquared(a, b) ==
    (FVal(a.x) - FVal(b.x)) * (FVal(a.x) - FVal(b.x))
    + (FVal(a.y) - FVal(b.y)) * (FVal(a.y) - FVal(b.y))
    + (FVal(a.z) - FVal(b.z)) * (FVal(a.z) - FVal(b.z))

\* the inputs of a history with a sequence number above the given one
Remaining(h, sequence) ==
    SelectSeq(getUnacknowledged(h), LAMBDA input : U32Gt(input.sequence, sequence))

\* one tenth of the way from a to b, rounded to the nearest unit
TenthToward(a, b) == F(FVal(a) + ((FVal(b) - FVal(a)) * 10 + FScale \div 2) \div FScale)

\* what reconciliation makes of the local position, given the reported
\* state s and the position corrected
Reconciled(local, s, corrected) ==
    IF DistanceSquared(s.position, local) <= 1 THEN local
    ELSE IF DistanceSquared(s.position, local) >= FScale * FScale THEN corrected
    ELSE Vec3(TenthToward(local.x, corrected.x), TenthToward(local.y, corrected.y),
              TenthToward(local.z, corrected.z))

\* C31: when a connected client that stays connected receives a
\* STATE_UPDATE with its own state s, the history afterwards holds the
\* inputs with a sequence above s.lastProcessedInput, the local position is
\* unchanged when its distance e to s.position is at most 0.01, else becomes
\* s.position advanced by the remaining inputs when e >= 1.0 and moves a
\* tenth of the way toward that when e < 1.0, and no other field of
\* localState changes.
C31_ReconciliationRule ==
    [][(/\ obs'.op = "update"
        /\ client.state = "CONNECTED" /\ client'.state = "CONNECTED"
        /\ Len(obs'.batch) = 1
        /\ obs'.types = {STATE_UPDATE}) =>
         /\ getUnacknowledged(client'.inputHistory)
              = Remaining(client.inputHistory, ReportedState(obs'.batch[1]).lastProcessedInput)
         /\ client'.localState.position
              = Reconciled(client.localState.position, ReportedState(obs'.batch[1]),
                           Replay(ReportedState(obs'.batch[1]),
                                  Remaining(client.inputHistory,
                                            ReportedState(obs'.batch[1]).lastProcessedInput)
                                 ).position)
         /\ [client'.localState EXCEPT !.position = client.localState.position]
              = client.localState]_vars

\* the client at x = 1.00 with inputs 1 and 2 in its history received its
\* state at x = 1.99 with input 1 processed: input 2 stays in the history,
\* the corrected position is x = 2.49 and, the error being 0.99, the client
\* moved a tenth of the way, to x = 1.15
C31_Witness ==
    /\ obs.op = "update"
    /\ obs.types = {STATE_UPDATE}
    /\ Len(obs.batch) = 1
    /\ ReportedState(obs.batch[1]).position.x = F(199)
    /\ ReportedState(obs.batch[1]).lastProcessedInput = U32(1)
    /\ client.inputSequence = U32(2)
    /\ client.inputHistory.count = 1
    /\ client.localState.position.x = F(115)

\* a + n in uint32_t, for 0 <= n < 2^15
U32Add(a, n) == <<(a[1] + (a[2] + n) \div 65536) % 65536, (a[2] + n) % 65536>>

\* C32: an InputHistory has 0 <= count <= INPUT_BUFFER_SIZE and
\* 0 <= head < INPUT_BUFFER_SIZE after any addInput and acknowledgeUpTo, and
\* after n > INPUT_BUFFER_SIZE additions without an acknowledgement
\* getUnacknowledged() is the last INPUT_BUFFER_SIZE inputs added, in the
\* order they were added.
C32_RingOfTheNewestInputs ==
    /\ hx.h.count \in 0..INPUT_BUFFER_SIZE
    /\ hx.h.head \in 0..(INPUT_BUFFER_SIZE - 1)
    /\ (hx.acks = 0 /\ hx.n > INPUT_BUFFER_SIZE) =>
          /\ Len(getUnacknowledged(hx.h)) = INPUT_BUFFER_SIZE
          /\ \A j \in 1..INPUT_BUFFER_SIZE :
               /\ getUnacknowledged(hx.h)[j] = HistInput(getUnacknowledged(hx.h)[j].sequence)
               /\ U32Add(getUnacknowledged(hx.h)[j].sequence,
                         hx.step * (INPUT_BUFFER_SIZE + 1 - j)) = hx.next

\* two inputs more than the ring holds were added and none acknowledged:
\* the ring is full and its head has moved on by two
C32_Witness ==
    /\ hx.op = "added"
    /\ hx.acks = 0
    /\ hx.n = INPUT_BUFFER_SIZE + 2
    /\ hx.h.count = INPUT_BUFFER_SIZE
    /\ hx.h.head = 2

\* the sequence numbers 1, 2, ..., n
FirstSequences(n) == [i \in 1..n |-> U32(i)]

\* the sequence numbers the host has applied on the connection of the
\* client's endpoint
AppliedForClient(h, applied) ==
    IF \E id \in findConnection(h, ClientAddress) : id \in DOMAIN applied
    THEN applied[CHOOSE id \in findConnection(h, ClientAddress) : id \in DOMAIN applied]
    ELSE <<>>

\* C33: with INPUT packets arriving in the order sent and never five in a
\* row lost, after an update of the host that received the client's INPUT
\* packet and ticked the host has applied the sequence numbers 1, 2, ... up
\* to the input the client sent last, each once and none skipped, and the
\* connection's lastProcessedInput is that number.
C33_RedundancyCoversLoss ==
    [][obs'.op = "deliver" =>
         /\ AppliedForClient(host', obs'.applied) = FirstSequences(client.inputSequence[2])
         /\ \A id \in findConnection(host', ClientAddress) :
              host'.connections[id].lastProcessedInput = client.inputSequence]_vars

\* C34: a connected client whose connection the host no longer holds is
\* eventually DISCONNECTED, the client calling update and time passing; it
\* is DISCONNECTED at once by an update that receives a DISCONNECT, and by
\* an update that reads a time more than CONNECTION_TIMEOUT after the last
\* packet received.
C34_DroppedClientDisconnects ==
    /\ (client.state = "CONNECTED" /\ Torn) ~> (client.state = "DISCONNECTED")
    /\ [][(obs'.op = "clientUpdate" /\ client.state = "CONNECTED") =>
            /\ DISCONNECT \in BatchTypes(obs'.batch) => client'.state = "DISCONNECTED"
            /\ (/\ obs'.batch = <<>>
                /\ obs'.now - client.lastReceiveTime > CONNECTION_TIMEOUT)
                 => client'.state = "DISCONNECTED"]_vars

\* the host dropped the connection of the connected client after the
\* timeout and told it nothing; the client, having waited for more than the
\* timeout itself, is DISCONNECTED by its update
C34_Witness ==
    /\ obs.op = "clientUpdate"
    /\ obs.before = "CONNECTED"
    /\ obs.batch = <<>>
    /\ host.running
    /\ Torn
    /\ client.state = "DISCONNECTED"


\* C35: connections_ and players_ hold the same ids, the local player 0 of
\* players_ apart; where onPlayerConnected(p) is called both hold p, and where
\* onPlayerDisconnected(p) is called neither does
C35_MapsHoldTheSamePlayers ==
    /\ DOMAIN host.connections = DOMAIN host.players \ {U32(0)}
    /\ "held" \in DOMAIN obs =>
         \A i \in DOMAIN obs.held :
           /\ obs.events[i].callback = "onPlayerConnected" =>
                obs.held[i].connection /\ obs.held[i].player
           /\ obs.events[i].callback = "onPlayerDisconnected" =>
                ~obs.held[i].connection /\ ~obs.held[i].player

\* an update has called onPlayerDisconnected for one player while another
\* stays connected beside the local player
C35_Witness ==
    /\ "held" \in DOMAIN obs
    /\ \E i \in DOMAIN obs.held : obs.events[i].callback = "onPlayerDisconnected"
    /\ U32(0) \in DOMAIN host.players
    /\ host.connections # <<>>

\* C36: every Connection has a playerId of at least 1, which is its key in
\* connections_; no two Connections share an address; and every id handed
\* out is greater than every id handed out before (nextPlayerId_ is above
\* every id in use, a new Connection gets an id not below it, and it never
\* goes down, across stop and start as well)
C36_PlayerIdsAreFresh ==
    /\ [](\A id \in DOMAIN host.connections :
            /\ U32Gt(id, U32(0))
            /\ host.connections[id].playerId = id
            /\ U32Lt(id, host.nextPlayerId)
            /\ \A other \in DOMAIN host.connections \ {id} :
                 host.connections[other].address # host.connections[id].address)
    /\ [][/\ ~U32Lt(host'.nextPlayerId, host.nextPlayerId)
          /\ \A id \in DOMAIN host'.connections \ DOMAIN host.connections :
               ~U32Lt(id, host.nextPlayerId)]_vars

\* the endpoint that had id 1 and left has come back and has id 2
C36_Witness ==
    /\ DOMAIN host.connections = {U32(2)}
    /\ host.nextPlayerId = U32(3)
    /\ \E addr \in Peers : host.connections[U32(2)].address = addr /\ net.peers[addr] = U32(3)

\* the i at which the scan of interpolate breaks
InterpChosen(s, targetTick) ==
    CHOOSE i \in InterpHits(s, targetTick) : \A m \in InterpHits(s, targetTick) : i <= m

\* interpolate has taken both a before and an after
InterpTookBoth(s, targetTick) ==
    /\ s.count >= 2
    /\ InterpHits(s, targetTick) # {}
    /\ InterpChosen(s, targetTick) > 0

\* t before it is clamped
InterpRawFactor(before, after, targetTick) ==
    FDiv(FFromU32(U32Sub(targetTick, before.tick)), FFromU32(U32Sub(after.tick, before.tick)))

\* before and after bracket targetTick, and out is their blend
InterpBracketed(res, before, after, targetTick) ==
    /\ U32Le(before.tick, targetTick)
    /\ U32Lt(targetTick, after.tick)
    /\ U32Gt(U32Sub(after.tick, before.tick), U32(0))
    /\ FVal(InterpRawFactor(before, after, targetTick)) >= 0
    /\ FVal(InterpRawFactor(before, after, targetTick)) < FScale
    /\ res = [ok |-> TRUE,
              out |-> InterpBlend(before, after,
                                  InterpFactor(before, after, targetTick), targetTick)]

\* C37: whenever interpolate takes both a before and an after,
\* before.tick <= targetTick < after.tick: the denominator is positive and
\* t is in [0, 1) before it is clamped
C37_InterpolationDividesSafely ==
    (ix.op = "interpolated" /\ InterpTookBoth(ix.st, ix.target)) =>
        InterpBracketed(ix.res,
                        InterpAt(ix.st, InterpChosen(ix.st, ix.target)),
                        InterpAt(ix.st, InterpChosen(ix.st, ix.target) - 1),
                        ix.target)

\* after the ring wrapped the newest state was added with a tick below the
\* one before it, and interpolate took the two states added before them
C37_Witness ==
    /\ ix.op = "interpolated" /\ InterpTookBoth(ix.st, ix.target)
    /\ ix.st.count > STATE_BUFFER_SIZE
    /\ InterpChosen(ix.st, ix.target) = 2
    /\ U32Lt(InterpAt(ix.st, 0).tick, InterpAt(ix.st, 1).tick)

\* C38: the serverTick of a CONNECTED client does not go down when it
\* handles a STATE_UPDATE, whatever the order in which STATE_UPDATEs arrive
C38_ServerTickNeverDecreases ==
    [][(/\ obs'.op = "receive" /\ obs'.by = "client"
        /\ obs'.dispatched /\ obs'.type = STATE_UPDATE
        /\ client.state = "CONNECTED") =>
          ~U32Lt(client'.serverTick, client.serverTick)]_vars

\* Client::getPlayerCount
getPlayerCount(c) == Cardinality(DOMAIN c.remotePlayers) + 1

\* C39: a CONNECTED client has its own playerId neither in remotePlayers nor
\* in interpolationStates, whatever the order in which CONNECT_ACCEPT,
\* WORLD_SNAPSHOT, STATE_UPDATE and ENTITY_CREATE arrive, so getPlayerCount()
\* counts the client and no more than the other players of the host
C39_OwnPlayerIsNotRemote ==
    client.state = "CONNECTED" =>
        /\ client.playerId \notin DOMAIN client.remotePlayers
        /\ client.playerId \notin DOMAIN client.interpolationStates
        /\ getPlayerCount(client)
             <= Cardinality(DOMAIN host.players \ {client.playerId}) + 1

\* how many times onDisconnected is among the callbacks
Disconnections(events) ==
    Cardinality({i \in DOMAIN events : events[i].callback = "onDisconnected"})

\* C40: a DISCONNECTED client holds no remote player, no interpolation state
\* and an input history of count 0; a call that takes the client into
\* DISCONNECTED calls onDisconnected once and any other call never; disconnect
\* and update on a DISCONNECTED client call nothing and send nothing
C40_DisconnectCleansUp ==
    /\ [](client.state = "DISCONNECTED" =>
            /\ client.remotePlayers = <<>>
            /\ client.interpolationStates = <<>>
            /\ client.inputHistory.count = 0)
    /\ [][obs'.op \in {"connect", "update", "sendInput", "disconnect"} =>
            /\ Disconnections(obs'.events) =
                 IF client.state # "DISCONNECTED" /\ client'.state = "DISCONNECTED"
                 THEN 1 ELSE 0
            /\ (client.state = "DISCONNECTED" /\ obs'.op \in {"update", "disconnect"}) =>
                 /\ obs'.events = <<>>
                 /\ obs'.out = {}
                 /\ client'.state = "DISCONNECTED"]_vars

\* an update that received DISCONNECT has taken a client with a remote
\* player, an interpolation state and an input in its history to DISCONNECTED
C40_Witness ==
    /\ obs.op = "update" /\ obs.before = "CONNECTED" /\ DISCONNECT \in obs.types
    /\ obs.had.remotePlayers > 0 /\ obs.had.interpolationStates > 0 /\ obs.had.inputs > 0
    /\ obs.events = <<[callback |-> "onDisconnected"]>>
    /\ client.state = "DISCONNECTED"
====
